---- MODULE Spec2Model ----
(***************************************************************************)
(* Model of the synth asset pipeline of cardplay:                          *)
(*   scripts/parse-synth-assets.py     (local ingestion, "local")          *)
(*   scripts/synth-asset-downloader.py (remote ingestion, "download")      *)
(*   scripts/reorganize-synth-db.py    (classification pass)               *)
(*                                                                         *)
(* Byte buffers are sequences of integers 0..255 and the parsers read them *)
(* with the offsets, widths and byte orders of the struct.unpack calls.    *)
(* Python's None is the record NoAsset; an exception that leaves a         *)
(* function is the record Raised(kind).  hashlib.sha256 is modelled as an  *)
(* injective tagging of its argument, so that two hashes are equal exactly *)
(* when the hashed values are.                                             *)
(***************************************************************************)
EXTENDS Integers, Sequences, FiniteSets, TLC

VARIABLES
    input,      \* parsers: the file handed to a parser and its path
    out,        \* parsers: what the parser returned
    disk,       \* pipelines: the bytes of every file of the scanned trees
    store,      \* pipelines: the asset store, as the connection sees it and as committed
    run,        \* pipelines: position, counters and exit status of the current run
    history,    \* pipelines: per logical id, what was inserted so far (raw bytes, hash)
    env,        \* pipelines: the faults the environment may still inject
    dbs,        \* classification: the database files, by name
    cls         \* classification: arguments and progress of create_organized_database

pvars == <<input, out>>
ivars == <<disk, store, run, history, env>>
cvars == <<dbs, cls>>
vars == <<input, out, disk, store, run, history, env, dbs, cls>>

----------------------------------------------------------------------------
(* Bounds of the model *)

MaxFrameSize == 2        \* .wt inputs declare 0..MaxFrameSize samples per frame
MaxFrameCount == 2       \* .wt inputs declare 0..MaxFrameCount frames
MaxSmallSamples == 3     \* WAV inputs hold 0..MaxSmallSamples samples, or whole frames
MaxWavFrames == 2        \* WAV inputs hold up to MaxWavFrames frames of 256 samples
MaxLeadNoise == 3        \* bytes of framing before the markup of a preset chunk

----------------------------------------------------------------------------
(* Python helpers *)

Min(a, b) == IF a < b THEN a ELSE b
Max(a, b) == IF a > b THEN a ELSE b

\* data[a:b] for 0 <= a, with the end clamped to the buffer as Python does
Slice(d, a, b) == SubSeq(d, a + 1, Min(b, Len(d)))

\* struct.unpack('<I', d[off:off+4])[0]
U32LE(d, off) == d[off + 1] + 256 * d[off + 2] + 65536 * d[off + 3] + 16777216 * d[off + 4]

\* struct.unpack('<H', d[off:off+2])[0]
U16LE(d, off) == d[off + 1] + 256 * d[off + 2]

\* struct.unpack('<h', d[off:off+2])[0]
I16LE(d, off) == IF U16LE(d, off) >= 32768 THEN U16LE(d, off) - 65536 ELSE U16LE(d, off)

\* struct.unpack('>I', d[off:off+4])[0]
U32BE(d, off) == 16777216 * d[off + 1] + 65536 * d[off + 2] + 256 * d[off + 3] + d[off + 4]

\* the little-endian bytes struct.pack('<I', n) writes
PackU32LE(n) == << n % 256, (n \div 256) % 256, (n \div 65536) % 256, (n \div 16777216) % 256 >>

\* flags & mask for a one-bit mask
BitAnd(n, mask) == IF (n \div mask) % 2 = 1 THEN mask ELSE 0

\* hashlib.sha256(x).hexdigest(): injective in x
Sha256(x) == << "sha256", x >>

\* hashlib.sha256(path.encode()).hexdigest()[:16]: the logical identifier
LogicalId(path) == << "sha256/16", path >>

NoAsset == [tag |-> "none"]
Raised(kind) == [tag |-> "raise", exc |-> kind]
\* "if wt:" / "if preset:" of the callers
IsAsset(r) == r.tag = "asset"

----------------------------------------------------------------------------
(* Paths.  A path is the sequence of its directory segments plus the file's *)
(* stem and extension, so that str(path) is injective in this record.      *)

Path(segs, stem, ext) == [segs |-> segs, stem |-> stem, ext |-> ext]

\* surge_path / 'resources' / 'data' / ... : the local pipeline's file_path
SurgePath == << "external", "surge" >>
LocalPath(loc) == [loc EXCEPT !.segs = SurgePath \o loc.segs]

\* the index of the last segment equal to marker, 0 when there is none
LastIndexOf(segs, marker) ==
    IF \E i \in 1..Len(segs) : segs[i] = marker
    THEN CHOOSE i \in 1..Len(segs) :
            /\ segs[i] = marker
            /\ \A j \in (i + 1)..Len(segs) : segs[j] # marker
    ELSE 0

\* rel_path.split(marker + '/')[-1].split('/')[:-1]: the directory segments
\* after the last marker
DirsAfter(path, marker) ==
    SubSeq(path.segs, LastIndexOf(path.segs, marker) + 1, Len(path.segs))

\* 'wavetables_3rdparty' in rel_path
IsThirdPartyPath(path) == \E i \in 1..Len(path.segs) : path.segs[i] = "wavetables_3rdparty"

\* the contributor and category the local parsers derive from file_path
LocalWtContributor(path) ==
    IF IsThirdPartyPath(path)
    THEN LET parts == DirsAfter(path, "wavetables_3rdparty")
         IN IF Len(parts) + 1 > 1 THEN << parts[1] >> ELSE << >>
    ELSE << >>

LocalWtCategory(path) ==
    IF IsThirdPartyPath(path)
    THEN LET parts == DirsAfter(path, "wavetables_3rdparty")
         IN IF Len(parts) + 1 > 1 THEN parts ELSE << "Uncategorized" >>
    ELSE LET parts == DirsAfter(path, "wavetables")
         IN IF Len(parts) + 1 > 1 THEN parts ELSE << "root" >>

\* download_surge_assets: rel_path = file_path.replace(wt_path + '/', ''),
\* parts = rel_path.split('/'); root is the last segment of wt_path
DownloadWtContributor(path, root, is_third_party) ==
    LET parts == DirsAfter(path, root)
    IN IF is_third_party /\ Len(parts) + 1 >= 2 THEN << parts[1] >> ELSE << >>

DownloadWtCategory(path, root, is_third_party) ==
    LET parts == DirsAfter(path, root)
    IN IF is_third_party /\ Len(parts) + 1 >= 2
       THEN parts
       ELSE IF Len(parts) + 1 > 1 THEN parts ELSE << "root" >>

----------------------------------------------------------------------------
(* Surge .wt wavetables *)

WT_MAGIC == 2002876019      \* 0x77617673

\* A decoded sample: <<n, w>> is the value n / 2^(w-1) of a w-bit integer
\* sample (n / 32768.0 for w = 16), <<b0, b1, b2, b3>> the IEEE-754 bytes of
\* a float32 sample.
IntSample(n, w) == << n, w >>
F32Sample(d, off) == << d[off + 1], d[off + 2], d[off + 3], d[off + 4] >>

\* array.array('f', samples): a decoded value n / 2^(w-1) is stored as the
\* nearest float32, which has a significand of 24 bits (ties go to the even
\* significand): the significand m and the exponent lost, as the sample
\* <<m, w - lost>>.  The bytes of a float32 sample are stored as they are.
Log2(q) ==
    CASE q = 1 -> 0 [] q = 2 -> 1 [] q = 4 -> 2 [] q = 8 -> 3 [] q = 16 -> 4
      [] q = 32 -> 5 [] q = 64 -> 6 [] q = 128 -> 7
Float32Of(sample) ==
    IF Len(sample) # 2 THEN sample
    ELSE IF sample[1] = -2147483647 - 1 THEN IntSample(-8388608, sample[2] - 8)
    ELSE LET n == sample[1]
             a == IF n < 0 THEN -n ELSE n
             q == CHOOSE u \in {1, 2, 4, 8, 16, 32, 64, 128} :
                     /\ a \div u < 16777216
                     /\ (u = 1 \/ a \div u >= 8388608)
             rem == a % q
             m == IF 2 * rem < q THEN a \div q
                  ELSE IF 2 * rem > q THEN (a \div q) + 1
                  ELSE IF (a \div q) % 2 = 0 THEN a \div q ELSE (a \div q) + 1
         IN IntSample(IF n < 0 THEN -m ELSE m, sample[2] - Log2(q))

\* WavetableData(...)
WavetableData(path, source, category, contributor, is_third_party, frame_count, frame_size, sample_rate, bit_depth, samples, sha256, file_size) ==
    [tag |-> "asset",
     id |-> LogicalId(path),
     name |-> path.stem,
     source |-> source,
     category |-> category,
     path |-> path,
     frame_count |-> frame_count,
     frame_size |-> frame_size,
     sample_rate |-> sample_rate,
     bit_depth |-> bit_depth,
     is_third_party |-> is_third_party,
     contributor |-> contributor,
     data_b64 |-> [i \in 1..Len(samples) |-> Float32Of(samples[i])],
     sha256 |-> sha256,
     file_size |-> file_size]

\* sha256=hashlib.sha256(data).hexdigest(), file_size=len(data)
WavetableSha256(data) == Sha256(data)
WavetableFileSize(data) == Len(data)

\* parse_surge_wt_header
parse_surge_wt_header(data) ==
    IF Len(data) < 12 THEN NoAsset
    ELSE IF U32LE(data, 0) # WT_MAGIC THEN NoAsset
    ELSE LET flags == IF Len(data) >= 16 THEN U32LE(data, 12) ELSE 0
         IN [tag |-> "header",
             frame_size |-> U32LE(data, 4),
             frame_count |-> U32LE(data, 8),
             is_float |-> BitAnd(flags, 4) # 0,
             header_size |-> IF Len(data) >= 16 THEN 16 ELSE 12]

\* bytes per sample of the two encodings
WtSampleWidth(is_float) == IF is_float THEN 4 ELSE 2

\* A decode that unpacks everything after the header instead of the declared
\* geometry (a variant, not the program's).
WtDecodeToEnd(data, h) ==
    LET n == h.frame_size * h.frame_count
        w == IF h.is_float THEN 4 ELSE 2
    IN IF Len(data) < h.header_size + n * w THEN [tag |-> "none"]
       ELSE [tag |-> "decoded",
             lo |-> h.header_size,
             hi |-> Len(data),
             samples |-> [i \in 1..((Len(data) - h.header_size) \div w) |->
                            IF h.is_float
                            THEN << data[h.header_size + 4 * (i - 1) + 1],
                                    data[h.header_size + 4 * (i - 1) + 2],
                                    data[h.header_size + 4 * (i - 1) + 3],
                                    data[h.header_size + 4 * (i - 1) + 4] >>
                            ELSE << data[h.header_size + 2 * (i - 1) + 1]
                                      + 256 * data[h.header_size + 2 * (i - 1) + 2], 16 >>]]

\* The sample decode both pipelines share: the length check, the slice
\* data[header_size : header_size + n * width] and its struct.unpack.
\* lo and hi record the slice that was unpacked.
WtDecode(data, h) ==
    LET n == h.frame_size * h.frame_count
        w == WtSampleWidth(h.is_float)
        expected_size == h.header_size + n * w
    IN IF Len(data) < expected_size THEN NoAsset
       ELSE [tag |-> "decoded",
             lo |-> h.header_size,
             hi |-> h.header_size + n * w,
             samples |-> [i \in 1..n |->
                            IF h.is_float
                            THEN F32Sample(data, h.header_size + 4 * (i - 1))
                            ELSE IntSample(I16LE(data, h.header_size + 2 * (i - 1)), 16)]]

\* downloader: parse_surge_wavetable(data, name, path, category, ...)
parse_surge_wavetable(data, path, category, is_third_party, contributor) ==
    LET header == parse_surge_wt_header(data)
    IN IF header.tag = "none" THEN [asset |-> NoAsset, trace |-> NoAsset]
       ELSE LET dec == WtDecode(data, header)
            IN IF dec.tag = "none" THEN [asset |-> NoAsset, trace |-> header]
               ELSE [asset |-> WavetableData(path, "surge", category, contributor,
                                             is_third_party, header.frame_count,
                                             header.frame_size, 44100,
                                             IF header.is_float THEN 32 ELSE 16,
                                             dec.samples, WavetableSha256(data),
                                             WavetableFileSize(data)),
                     trace |-> header @@ [lo |-> dec.lo, hi |-> dec.hi]]

\* local: parse_surge_wt(file_path); the header is read inline with the same
\* tests as parse_surge_wt_header, and any exception is turned into None
parse_surge_wt(data, file_path) ==
    parse_surge_wavetable(data, file_path, LocalWtCategory(file_path),
                          IsThirdPartyPath(file_path), LocalWtContributor(file_path))

----------------------------------------------------------------------------
(* WAV files read as wavetables *)

RIFF == << 82, 73, 70, 70 >>
WAVE == << 87, 65, 86, 69 >>
FMT_ == << 102, 109, 116, 32 >>
DATA == << 100, 97, 116, 97 >>

\* the three bytes read without the pad byte for the sign (a variant, not
\* the program's)
I24LEUnsigned(d, off) == d[off + 1] + 256 * d[off + 2] + 65536 * d[off + 3]

\* struct.unpack('<i', b + pad)[0] of the 24-bit path: the pad byte is 0x00
\* when b[2] < 128 and 0xff otherwise
I24LE(d, off) ==
    LET u == d[off + 1] + 256 * d[off + 2] + 65536 * d[off + 3]
    IN IF d[off + 3] < 128 THEN u ELSE u - 16777216

\* struct.unpack('<i', d[off:off+4])[0]
I32LE(d, off) ==
    d[off + 1] + 256 * d[off + 2] + 65536 * d[off + 3]
        + 16777216 * (IF d[off + 4] >= 128 THEN d[off + 4] - 256 ELSE d[off + 4])

\* the chunk walk without the pad byte after a chunk of odd size (a
\* variant, not the program's)
RECURSIVE WavWalkUnpadded(_, _, _)
WavWalkUnpadded(data, pos, acc) ==
    IF ~(pos < Len(data) - 8) THEN [acc EXCEPT !.pos = pos]
    ELSE LET chunk_id == Slice(data, pos, pos + 4)
             chunk_size == U32LE(data, pos + 4)
             next == pos + 8 + chunk_size
             seen == [acc EXCEPT !.steps = @ + 1, !.pos = pos]
         IN IF chunk_id = FMT_
            THEN WavWalkUnpadded(data, next,
                         [seen EXCEPT !.fmt_data = Slice(data, pos + 8, pos + 8 + chunk_size),
                                      !.fmt_found = TRUE])
            ELSE IF chunk_id = DATA
            THEN [seen EXCEPT !.audio_data = Slice(data, pos + 8, pos + 8 + chunk_size),
                              !.data_found = TRUE]
            ELSE WavWalkUnpadded(data, next, seen)

\* The chunk walk: while pos < len(data) - 8, read id and size, keep the
\* 'fmt ' slice, stop at the 'data' slice, else advance by 8 + size (+ 1 pad).
\* steps counts the iterations, pos is the position when the loop is left.
RECURSIVE WavWalk(_, _, _)
WavWalk(data, pos, acc) ==
    IF ~(pos < Len(data) - 8) THEN [acc EXCEPT !.pos = pos]
    ELSE LET chunk_id == Slice(data, pos, pos + 4)
             chunk_size == U32LE(data, pos + 4)
             next == pos + 8 + chunk_size + (IF chunk_size % 2 = 1 THEN 1 ELSE 0)
             seen == [acc EXCEPT !.steps = @ + 1, !.pos = pos]
         IN IF chunk_id = FMT_
            THEN WavWalk(data, next,
                         [seen EXCEPT !.fmt_data = Slice(data, pos + 8, pos + 8 + chunk_size),
                                      !.fmt_found = TRUE])
            ELSE IF chunk_id = DATA
            THEN [seen EXCEPT !.audio_data = Slice(data, pos + 8, pos + 8 + chunk_size),
                              !.data_found = TRUE]
            ELSE WavWalk(data, next, seen)

WavWalkStart ==
    [fmt_data |-> << >>, audio_data |-> << >>, fmt_found |-> FALSE,
     data_found |-> FALSE, steps |-> 0, pos |-> 12]

\* common_sizes and the default frame size
CommonSizes == << 256, 512, 1024, 2048, 4096 >>
DefaultFrameSize == 2048

\* the largest of the common sizes that divides the number of samples (a
\* variant, not the program's)
DetectLargestFrameSize(total_samples) ==
    IF \E k \in 1..Len(CommonSizes) : total_samples % CommonSizes[k] = 0
    THEN CommonSizes[CHOOSE k \in 1..Len(CommonSizes) :
                        /\ total_samples % CommonSizes[k] = 0
                        /\ \A j \in (k + 1)..Len(CommonSizes) : total_samples % CommonSizes[j] # 0]
    ELSE DefaultFrameSize

\* for size in common_sizes: if total_samples % size == 0: frame_size = size; break
DetectFrameSize(total_samples) ==
    IF \E k \in 1..Len(CommonSizes) : total_samples % CommonSizes[k] = 0
    THEN CommonSizes[CHOOSE k \in 1..Len(CommonSizes) :
                        /\ total_samples % CommonSizes[k] = 0
                        /\ \A j \in 1..(k - 1) : total_samples % CommonSizes[j] # 0]
    ELSE DefaultFrameSize

\* the audio formats accepted: PCM and IEEE float
AcceptedFormats == {1, 3}

\* the bit depths the sample loop has a branch for
DecodedDepths == {16, 24, 32}

\* one iteration of the sample loop, for a bit depth that has a branch
WavSampleAt(audio_data, offset, bits_per_sample, audio_format) ==
    IF bits_per_sample = 16 THEN IntSample(I16LE(audio_data, offset), 16)
    ELSE IF bits_per_sample = 24 THEN IntSample(I24LE(audio_data, offset), 24)
    ELSE IF audio_format = 3 THEN F32Sample(audio_data, offset)
    ELSE IntSample(I32LE(audio_data, offset), 32)

\* for i in range(total_samples): ... samples.append(val); nothing is
\* appended when no branch matches bits_per_sample
WavSamples(audio_data, total_samples, stride, bits_per_sample, audio_format) ==
    IF bits_per_sample \in DecodedDepths
    THEN [i \in 1..total_samples |->
            WavSampleAt(audio_data, (i - 1) * stride, bits_per_sample, audio_format)]
    ELSE << >>

\* The body of the WAV parser after the container check, shared by both
\* pipelines: NoAsset for None, Raised(..) for an exception leaving the body.
WavDecode(data) ==
    LET walk == WavWalk(data, 12, WavWalkStart)
        fmt_data == walk.fmt_data
        audio_data == walk.audio_data
    IN IF fmt_data = << >> \/ audio_data = << >> THEN NoAsset
       ELSE IF Len(fmt_data) < 16 THEN Raised("struct.error")
       ELSE LET audio_format == U16LE(fmt_data, 0)
                num_channels == U16LE(fmt_data, 2)
                sample_rate == U32LE(fmt_data, 4)
                bits_per_sample == U16LE(fmt_data, 14)
                bytes_per_sample == bits_per_sample \div 8
            IN IF audio_format \notin AcceptedFormats THEN NoAsset
               ELSE IF bytes_per_sample * num_channels = 0 THEN Raised("ZeroDivisionError")
               ELSE LET total_samples == Len(audio_data) \div (bytes_per_sample * num_channels)
                        samples == WavSamples(audio_data, total_samples,
                                              bytes_per_sample * num_channels,
                                              bits_per_sample, audio_format)
                        frame_size == DetectFrameSize(total_samples)
                        frame_count == Max(1, total_samples \div frame_size)
                    IN [tag |-> "decoded",
                        audio_format |-> audio_format,
                        bits_per_sample |-> bits_per_sample,
                        sample_rate |-> sample_rate,
                        total_samples |-> total_samples,
                        frame_size |-> frame_size,
                        frame_count |-> frame_count,
                        samples |-> SubSeq(samples, 1, Min(Len(samples), frame_count * frame_size))]

\* downloader: parse_surge_wav_wavetable(data, name, path, category, ...);
\* an exception of the body leaves the function
parse_surge_wav_wavetable(data, path, category, is_third_party, contributor) ==
    IF Len(data) < 44 THEN [asset |-> NoAsset, trace |-> NoAsset]
    ELSE IF Slice(data, 0, 4) # RIFF \/ Slice(data, 8, 12) # WAVE
    THEN [asset |-> NoAsset, trace |-> NoAsset]
    ELSE LET dec == WavDecode(data)
         IN IF dec.tag # "decoded" THEN [asset |-> dec, trace |-> dec]
            ELSE [asset |-> WavetableData(path, "surge", category, contributor,
                                          is_third_party, dec.frame_count, dec.frame_size,
                                          dec.sample_rate, dec.bits_per_sample,
                                          dec.samples, WavetableSha256(data),
                                          WavetableFileSize(data)),
                  trace |-> dec]

\* try: ... except Exception: return None
CatchAll(r) == IF r.asset.tag = "raise" THEN [r EXCEPT !.asset = NoAsset] ELSE r

\* local: parse_surge_wav(file_path), the same body inside try/except Exception
parse_surge_wav(data, file_path) ==
    CatchAll(parse_surge_wav_wavetable(data, file_path, LocalWtCategory(file_path),
                                       IsThirdPartyPath(file_path),
                                       LocalWtContributor(file_path)))

----------------------------------------------------------------------------
(* Surge .fxp presets.  The markup inside the chunk is read by the code in *)
(* two ways only: byte scans for '<?xml', '<patch' and '>', and            *)
(* ET.fromstring.  A document is therefore written as '<patch', a space, a *)
(* one-byte document code and '/>' (optionally after an '<?xml ?>'         *)
(* prolog); ET.fromstring maps the code to the element tree it stands for. *)

CCNK == << 67, 99, 110, 75 >>
FXCK == << 70, 120, 67, 107 >>
FPCH == << 70, 80, 67, 104 >>
XML_DECL == << 60, 63, 120, 109, 108 >>            \* '<?xml'
PATCH_OPEN == << 60, 112, 97, 116, 99, 104 >>      \* '<patch'
GT == 62                                           \* ord('>')
XmlProlog == XML_DECL \o << 32, 63, 62 >>          \* '<?xml ?>'
Whitespace == {9, 10, 11, 12, 13, 32}

\* an optional attribute: << >> when absent, << v >> when present
Absent == << >>
Attr(v) == << v >>
\* the text of a numeric attribute, in thousandths; NotANumber is text that
\* int() and float() reject
Num(n) == [num |-> TRUE, v |-> n]
NotANumber == [num |-> FALSE, v |-> 0]

\* a preset's display name: text from the markup or the header's name bytes
TextName(s) == [text |-> << s >>, bytes |-> << >>]
HeaderName(b) == [text |-> << >>, bytes |-> b]

OscEl(type, wavetable, pitch, unison_voices) ==
    [type |-> type, wavetable |-> wavetable, pitch |-> pitch, unison_voices |-> unison_voices]
EnvEl(id, attack, decay, sustain, release) ==
    [id |-> id, attack |-> attack, decay |-> decay, sustain |-> sustain, release |-> release]
Scene(oscs, filters, envelopes, lfos) ==
    [oscs |-> oscs, filters |-> filters, envelopes |-> envelopes, lfos |-> lfos]
Tree(name, category, author, scenes, modroutings, fxs) ==
    [name |-> name, category |-> category, author |-> author, comment |-> Absent,
     scenes |-> scenes, modroutings |-> modroutings, fxs |-> fxs]

\* the element trees of the document codes
DocTrees ==
    << \* 1: <patch/>
       Tree(Absent, Absent, Absent, << >>, << >>, << >>),
       \* 2: a named lead with a category attribute, a wavetable oscillator
       \*    tuned an octave down and a plucked amp envelope
       Tree(Attr("Init Saw"), Attr("Leads"), Attr("Claes"),
            << Scene(<< OscEl(Attr(Num(2000)), Attr("Sine"), Attr(Num(-12000)), Attr(Num(1000))),
                        OscEl(Absent, Absent, Absent, Absent) >>,
                     << [type |-> Attr(Num(1000))] >>,
                     << EnvEl(Absent, Attr(Num(5)), Attr(Num(100)), Attr(Num(100)), Attr(Num(100))) >>,
                     << [shape |-> Attr(Num(0))] >>) >>,
            << [depth |-> Attr(Num(500))] >>,
            << [mix |-> Attr(Num(1000))] >>),
       \* 3: an oscillator whose type attribute is not a number
       Tree(Attr("Broken"), Absent, Absent,
            << Scene(<< OscEl(Attr(NotANumber), Absent, Absent, Absent) >>,
                     << >>, << >>, << >>) >>,
            << >>, << >>) >>

DocText(k) == PATCH_OPEN \o << 32, k, 47, GT >>

ParseError == [tag |-> "raise", exc |-> "ParseError"]

\* ET.fromstring(xml_str)
ETParse(xml_str) ==
    LET body == IF Len(xml_str) >= Len(XmlProlog)
                    /\ SubSeq(xml_str, 1, Len(XmlProlog)) = XmlProlog
                THEN SubSeq(xml_str, Len(XmlProlog) + 1, Len(xml_str))
                ELSE xml_str
    IN IF \E k \in 1..Len(DocTrees) : body = DocText(k)
       THEN [tag |-> "tree", root |-> DocTrees[CHOOSE k \in 1..Len(DocTrees) : body = DocText(k)]]
       ELSE ParseError

\* bytes.decode('utf-8', errors='replace'): an undecodable byte becomes U+FFFD
Decode(b) == [i \in 1..Len(b) |-> IF b[i] >= 128 THEN 65533 ELSE b[i]]

\* str.strip()
RECURSIVE LStrip(_)
LStrip(t) == IF Len(t) > 0 /\ t[1] \in Whitespace THEN LStrip(Tail(t)) ELSE t
RECURSIVE RStrip(_)
RStrip(t) ==
    IF Len(t) > 0 /\ t[Len(t)] \in Whitespace THEN RStrip(SubSeq(t, 1, Len(t) - 1)) ELSE t
Strip(t) == RStrip(LStrip(t))

StartsWith(t, prefix) == Len(t) >= Len(prefix) /\ SubSeq(t, 1, Len(prefix)) = prefix

\* element.get(key, default) followed by int() or float(): the value, given
\* that the attribute is absent or numeric
Number(attr, default) == IF attr = Absent THEN default ELSE attr[1].v
\* whether int() / float() raises ValueError on the attribute
Rejects(attr) == attr # Absent /\ ~attr[1].num

\* the conversions of one scene's oscillators, filters, envelopes and LFOs,
\* and of the global modrouting and fx elements
TreeRejects(root) ==
    \/ \E si \in 1..Len(root.scenes) :
         LET sc == root.scenes[si]
         IN \/ \E i \in 1..Len(sc.oscs) :
                 \/ Rejects(sc.oscs[i].type) \/ Rejects(sc.oscs[i].pitch)
                 \/ Rejects(sc.oscs[i].unison_voices)
            \/ \E i \in 1..Len(sc.filters) : Rejects(sc.filters[i].type)
            \/ \E i \in 1..Len(sc.envelopes) :
                 \/ Rejects(sc.envelopes[i].attack) \/ Rejects(sc.envelopes[i].decay)
                 \/ Rejects(sc.envelopes[i].sustain) \/ Rejects(sc.envelopes[i].release)
            \/ \E i \in 1..Len(sc.lfos) : Rejects(sc.lfos[i].shape)
    \/ \E i \in 1..Len(root.modroutings) : Rejects(root.modroutings[i].depth)
    \/ \E i \in 1..Len(root.fxs) : Rejects(root.fxs[i].mix)

RECURSIVE Flatten(_)
Flatten(ss) == IF ss = << >> THEN << >> ELSE Head(ss) \o Flatten(Tail(ss))

\* for i, osc in enumerate(scene.findall('.//osc')): OscillatorData(index=i, ...)
SceneOscillators(sc) ==
    [i \in 1..Len(sc.oscs) |->
        [index |-> i - 1,
         osc_type |-> Number(sc.oscs[i].type, 0) \div 1000,
         wavetable_name |-> sc.oscs[i].wavetable,
         tune_semitones |-> Number(sc.oscs[i].pitch, 0),
         unison_voices |-> Number(sc.oscs[i].unison_voices, 1000) \div 1000]]

\* for env in scene.findall('.//envelope'): EnvelopeData(name=env.get('id', 'amp'), ...)
SceneEnvelopes(sc) ==
    [i \in 1..Len(sc.envelopes) |->
        [name |-> IF sc.envelopes[i].id = Absent THEN "amp" ELSE sc.envelopes[i].id[1],
         attack |-> Number(sc.envelopes[i].attack, 10),
         decay |-> Number(sc.envelopes[i].decay, 100),
         sustain |-> Number(sc.envelopes[i].sustain, 700),
         release |-> Number(sc.envelopes[i].release, 300)]]

SceneFilters(sc) ==
    [i \in 1..Len(sc.filters) |->
        [index |-> i - 1, filter_type |-> Number(sc.filters[i].type, 0) \div 1000]]

SceneLfos(sc) ==
    [i \in 1..Len(sc.lfos) |->
        [index |-> i - 1, waveform |-> Number(sc.lfos[i].shape, 0) \div 1000]]

\* PresetData(...)
PresetData(path, name, source, category, author, description, oscillators, filters, envelopes, lfos, modulations, effects, raw_data, sha256, file_size) ==
    [tag |-> "asset",
     id |-> LogicalId(path),
     name |-> name,
     source |-> source,
     category |-> category,
     path |-> path,
     author |-> author,
     description |-> description,
     tags |-> << >>,
     oscillators |-> oscillators,
     filters |-> filters,
     envelopes |-> envelopes,
     lfos |-> lfos,
     modulations |-> modulations,
     effects |-> effects,
     raw_data |-> raw_data,
     sha256 |-> sha256,
     file_size |-> file_size]

\* 'patches_3rdparty' in rel_path
IsThirdPartyPatch(path) == \E i \in 1..Len(path.segs) : path.segs[i] = "patches_3rdparty"

\* local parse_surge_preset_xml: the category is replaced by the first
\* segment after the patch root when the file lies in a subdirectory of it
LocalPresetCategory(path, category) ==
    LET parts == IF IsThirdPartyPatch(path)
                 THEN DirsAfter(path, "patches_3rdparty")
                 ELSE DirsAfter(path, "patches_factory")
    IN IF Len(parts) + 1 > 1 THEN parts[1] ELSE category

\* downloader parse_surge_preset_xml keeps the markup's category
DownloadPresetCategory(path, category) == category

\* the content hash and the size a Surge preset is stored with
SurgePresetSha256(xml_str) == Sha256(xml_str)
SurgePresetFileSize(xml_str) == Len(xml_str)

\* parse_surge_preset_xml(xml_str, path, preset_name); only ET.ParseError is
\* caught, a ValueError of int() or float() leaves the function
parse_surge_preset_xml(xml_text, path, preset_name, local) ==
    LET xml_str == Strip(xml_text)
    IN IF ~StartsWith(xml_str, XML_DECL) /\ ~StartsWith(xml_str, PATCH_OPEN) THEN NoAsset
       ELSE LET parsed == ETParse(xml_str)
            IN IF parsed.tag = "raise" THEN NoAsset
               ELSE IF TreeRejects(parsed.root) THEN Raised("ValueError")
               ELSE LET root == parsed.root
                        category == IF root.category = Absent THEN "Uncategorized"
                                    ELSE root.category[1]
                    IN PresetData(path,
                                  IF root.name = Absent THEN HeaderName(preset_name)
                                  ELSE TextName(root.name[1]),
                                  "surge",
                                  IF local THEN LocalPresetCategory(path, category)
                                  ELSE DownloadPresetCategory(path, category),
                                  root.author, root.comment,
                                  Flatten([i \in 1..Len(root.scenes) |-> SceneOscillators(root.scenes[i])]),
                                  Flatten([i \in 1..Len(root.scenes) |-> SceneFilters(root.scenes[i])]),
                                  Flatten([i \in 1..Len(root.scenes) |-> SceneEnvelopes(root.scenes[i])]),
                                  Flatten([i \in 1..Len(root.scenes) |-> SceneLfos(root.scenes[i])]),
                                  [i \in 1..Len(root.modroutings) |->
                                      [amount |-> Number(root.modroutings[i].depth, 0)]],
                                  [i \in 1..Len(root.fxs) |->
                                      [mix |-> Number(root.fxs[i].mix, 1000)]],
                                  SubSeq(xml_str, 1, Min(Len(xml_str), 10000)),
                                  SurgePresetSha256(xml_str),
                                  SurgePresetFileSize(xml_str))

\* preset_name_bytes.split(b'\x00')[0]
RECURSIVE UpToNul(_)
UpToNul(b) == IF b = << >> \/ Head(b) = 0 THEN << >> ELSE << Head(b) >> \o UpToNul(Tail(b))

\* the offsets at which the scan for the start token looks
XmlScanLimit == 1000

IsStartToken(chunk_data, i) ==
    \/ Slice(chunk_data, i, i + 5) = XML_DECL
    \/ Slice(chunk_data, i, i + 6) = PATCH_OPEN

\* the first start token anywhere in the chunk (a variant, not the
\* program's)
XmlStartAnywhere(chunk_data) ==
    LET range == 0..(Len(chunk_data) - 1)
    IN IF \E i \in range : IsStartToken(chunk_data, i)
       THEN CHOOSE i \in range :
               /\ IsStartToken(chunk_data, i)
               /\ \A j \in 0..(i - 1) : ~IsStartToken(chunk_data, j)
       ELSE -1

\* for i in range(min(len(chunk_data), 1000)): ... xml_start = i; break
XmlStart(chunk_data) ==
    LET range == 0..(Min(Len(chunk_data), XmlScanLimit) - 1)
    IN IF \E i \in range : IsStartToken(chunk_data, i)
       THEN CHOOSE i \in range :
               /\ IsStartToken(chunk_data, i)
               /\ \A j \in 0..(i - 1) : ~IsStartToken(chunk_data, j)
       ELSE -1

\* for i in range(len(chunk_data) - 1, xml_start, -1): if chunk_data[i] == ord('>')
XmlEnd(chunk_data, xml_start) ==
    LET range == (xml_start + 1)..(Len(chunk_data) - 1)
    IN IF \E i \in range : chunk_data[i + 1] = GT
       THEN 1 + CHOOSE i \in range :
                    /\ chunk_data[i + 1] = GT
                    /\ \A j \in (i + 1)..(Len(chunk_data) - 1) : chunk_data[j + 1] # GT
       ELSE Len(chunk_data)

\* downloader: parse_surge_fxp_preset(data, path)
FxpParse(data, path, local) ==
    IF Len(data) < 60 THEN NoAsset
    ELSE IF Slice(data, 0, 4) # CCNK THEN NoAsset
    ELSE IF Slice(data, 8, 12) \notin {FXCK, FPCH} THEN NoAsset
    ELSE IF Slice(data, 8, 12) # FPCH THEN NoAsset
    ELSE LET preset_name == Decode(UpToNul(Slice(data, 28, 56)))
             chunk_size == U32BE(data, 56)
             chunk_data == Slice(data, 60, 60 + chunk_size)
             xml_start == XmlStart(chunk_data)
         IN IF xml_start < 0 THEN NoAsset
            ELSE parse_surge_preset_xml(
                    Decode(Slice(chunk_data, xml_start, XmlEnd(chunk_data, xml_start))),
                    path, preset_name, local)

parse_surge_fxp_preset(data, path) ==
    [asset |-> FxpParse(data, path, FALSE), trace |-> NoAsset]

\* local: parse_surge_fxp(file_path), the same body inside try/except Exception
parse_surge_fxp(data, file_path) ==
    CatchAll([asset |-> FxpParse(data, file_path, TRUE), trace |-> NoAsset])

----------------------------------------------------------------------------
(* Vital presets and wavetables: gzip-compressed JSON.  The raw data is the *)
(* record [gz, text, size]: whether the bytes are a gzip stream, the JSON   *)
(* text they hold and their length.  A text is [ok |-> FALSE] when         *)
(* json.loads rejects it.  The settings map is a function from keys        *)
(* <<group, slot, parameter>> (for f'osc_{i}_on': <<"osc", i, "on">>) to   *)
(* numbers in thousandths.                                                 *)

\* try: json_data = gzip.decompress(data) except: json_data = data
Decompress(data) == data.text

OscSlots == 1..3
FilterSlots == 1..2
EnvSlots == 1..6
LfoSlots == 1..8
EffectTypes == << "chorus", "compressor", "delay", "distortion", "eq",
                  "filter_fx", "flanger", "phaser", "reverb" >>

Has(settings, key) == key \in DOMAIN settings
Get(settings, key, default) == IF Has(settings, key) THEN settings[key] ELSE Num(default)

\* every slot from i to last, kept or not (a variant, not the program's)
SlotsAll(i, last, keep) == [k \in 1..(last - i + 1) |-> i + k - 1]

\* the ascending subsequence of the slots that satisfy keep
RECURSIVE SlotsFrom(_, _, _)
SlotsFrom(i, last, keep) ==
    IF i > last THEN << >>
    ELSE (IF i \in keep THEN << i >> ELSE << >>) \o SlotsFrom(i + 1, last, keep)

\* if f'{prefix}on' in settings: osc_on = settings.get(...); if osc_on: ...
VitalOscSlots(settings) ==
    SlotsFrom(1, 3, {i \in OscSlots :
                        /\ Has(settings, << "osc", i, "on" >>)
                        /\ settings[<< "osc", i, "on" >>] # Num(0)})

VitalOscillators(preset, settings) ==
    LET slots == VitalOscSlots(settings)
    IN [k \in 1..Len(slots) |->
          LET i == slots[k]
          IN [index |-> i - 1,
              osc_type |-> 2,
              wavetable_name |-> IF i \in DOMAIN preset.wavetables
                                 THEN Attr(preset.wavetables[i]) ELSE Absent,
              tune_semitones |-> Get(settings, << "osc", i, "transpose" >>, 0).v,
              unison_voices |-> Get(settings, << "osc", i, "unison_voices" >>, 1000).v \div 1000]]

VitalFilters(settings) ==
    LET slots == SlotsFrom(1, 2, {i \in FilterSlots : Has(settings, << "filter", i, "on" >>)})
    IN [k \in 1..Len(slots) |->
          [index |-> slots[k] - 1,
           filter_type |-> Get(settings, << "filter", slots[k], "model" >>, 0).v \div 1000]]

VitalEnvName(i) == << "env_1", "env_2", "env_3", "env_4", "env_5", "env_6" >>[i]

VitalEnvelopes(settings) ==
    LET slots == SlotsFrom(1, 6, {i \in EnvSlots : Has(settings, << "env", i, "attack" >>)})
    IN [k \in 1..Len(slots) |->
          LET i == slots[k]
          IN [name |-> VitalEnvName(i),
              attack |-> Get(settings, << "env", i, "attack" >>, 0).v,
              decay |-> Get(settings, << "env", i, "decay" >>, 0).v,
              sustain |-> Get(settings, << "env", i, "sustain" >>, 1000).v,
              release |-> Get(settings, << "env", i, "release" >>, 0).v]]

VitalLfos(settings) ==
    LET slots == SlotsFrom(1, 8, {i \in LfoSlots : Has(settings, << "lfo", i, "frequency" >>)})
    IN [k \in 1..Len(slots) |->
          [index |-> slots[k] - 1,
           waveform |-> Get(settings, << "lfo", slots[k], "shape" >>, 0).v \div 1000]]

VitalEffects(settings) ==
    LET slots == SlotsFrom(1, Len(EffectTypes),
                           {i \in 1..Len(EffectTypes) : Has(settings, << "fx", i, "on" >>)})
    IN [k \in 1..Len(slots) |->
          [effect_type |-> EffectTypes[slots[k]],
           enabled |-> Get(settings, << "fx", slots[k], "on" >>, 0).v > 0,
           mix |-> IF EffectTypes[slots[k]] # "eq"
                   THEN Get(settings, << "fx", slots[k], "mix" >>, 1000).v ELSE 1000]]

\* int(), float comparison and > 0 raise on a value that is not a number
VitalRejects(settings) ==
    \/ \E i \in OscSlots :
         /\ Has(settings, << "osc", i, "on" >>) /\ settings[<< "osc", i, "on" >>] # Num(0)
         /\ ~Get(settings, << "osc", i, "unison_voices" >>, 1000).num
    \/ \E i \in FilterSlots :
         /\ Has(settings, << "filter", i, "on" >>)
         /\ ~Get(settings, << "filter", i, "model" >>, 0).num
    \/ \E i \in LfoSlots :
         /\ Has(settings, << "lfo", i, "frequency" >>)
         /\ ~Get(settings, << "lfo", i, "shape" >>, 0).num
    \/ \E i \in 1..Len(EffectTypes) :
         /\ Has(settings, << "fx", i, "on" >>) /\ ~settings[<< "fx", i, "on" >>].num

\* category = style if style else path.split('/')[-2] if '/' in path else 'Uncategorized'
VitalCategory(preset, path) ==
    IF preset.preset_style # "" THEN preset.preset_style
    ELSE IF Len(path.segs) > 0 THEN path.segs[Len(path.segs)]
    ELSE "Uncategorized"

\* parse_vital_preset(data, path): every exception is caught and gives None
parse_vital_preset(data, path) ==
    LET json_data == Decompress(data)
    IN IF ~json_data.ok THEN NoAsset
       ELSE LET preset == json_data.preset
                settings == preset.settings
            IN IF VitalRejects(settings) THEN NoAsset
               ELSE PresetData(path,
                               IF preset.preset_name = Absent THEN TextName(path.stem)
                               ELSE TextName(preset.preset_name[1]),
                               "vital", VitalCategory(preset, path),
                               preset.author, preset.comments,
                               VitalOscillators(preset, settings),
                               VitalFilters(settings),
                               VitalEnvelopes(settings),
                               VitalLfos(settings),
                               << >>,
                               VitalEffects(settings),
                               json_data,
                               Sha256(data),
                               data.size)

\* the frame size the Vital wavetable parser reports
VitalFrameSize == 2048

\* the bytes of a base64 block, written as its length and a seed
PatByte(seed, i) == IF i % 4 = 0 THEN (seed + 41 * i) % 128 ELSE (seed + 41 * i) % 256
BlockBytes(block) == [i \in 1..block.len |-> PatByte(block.seed, i)]

\* frames: base64.b64decode(wave_data) of every keyframe that has wave_data
RECURSIVE KeyframeBlocks(_)
KeyframeBlocks(groups) ==
    IF groups = << >> THEN << >>
    ELSE LET kfs == Flatten(Head(groups))
         IN SelectSeq(kfs, LAMBDA kf : kf.len > 0) \o KeyframeBlocks(Tail(groups))

\* num_samples = len(frame) // 4; struct.unpack(f'<{num_samples}f', frame)
FrameSamples(frame) == [i \in 1..(Len(frame) \div 4) |-> F32Sample(frame, 4 * (i - 1))]

\* parse_vital_wavetable(data, name, path, category)
parse_vital_wavetable(data, path, category) ==
    LET json_data == Decompress(data)
    IN IF ~json_data.ok THEN NoAsset
       ELSE LET frames == KeyframeBlocks(json_data.groups)
            IN IF json_data.groups = << >> \/ frames = << >> THEN NoAsset
               ELSE IF \E k \in 1..Len(frames) : frames[k].len % 4 # 0 THEN NoAsset
               ELSE WavetableData(path, "vital", category, Absent, FALSE,
                                  Len(frames), VitalFrameSize, 44100, 32,
                                  Flatten([k \in 1..Len(frames) |->
                                              FrameSamples(BlockBytes(frames[k]))]),
                                  Sha256(data), data.size)
    

----------------------------------------------------------------------------
(* Input files.  A file is written by a writer whose intent is recorded in *)
(* the field 'written'; the parsers see only 'data' and the path.          *)

RepoData == << "resources", "data" >>

WtLocs(ext) ==
    { Path(RepoData \o << "wavetables", "Basic" >>, "Sine", ext),
      Path(RepoData \o << "wavetables" >>, "Top", ext),
      Path(RepoData \o << "wavetables_3rdparty", "A.Liv", "Pads" >>, "Warm", ext),
      Path(RepoData \o << "wavetables_3rdparty" >>, "Lone", ext) }

PresetLocs ==
    { Path(RepoData \o << "patches_factory", "Basses" >>, "Deep", "fxp"),
      Path(RepoData \o << "patches_3rdparty", "Damon", "Leads" >>, "Zap", "fxp") }

Bytes(seed, n) == [i \in 1..n |-> PatByte(seed, i)]

\* a .wt file: magic, frame_size, frame_count, the flags word when the
\* writer emits one, then nbytes bytes of samples
MkWt(magic, frame_size, frame_count, has_flags, flags, seed, nbytes) ==
    [kind |-> "wt",
     data |-> PackU32LE(magic) \o PackU32LE(frame_size) \o PackU32LE(frame_count)
                \o (IF has_flags THEN PackU32LE(flags) ELSE << >>) \o Bytes(seed, nbytes),
     written |-> [has_flags |-> has_flags, flags |-> flags,
                  frame_size |-> frame_size, frame_count |-> frame_count]]

WtFlagWords == {0, 3, 4}

WtFiles ==
    { MkWt(m, fs, fc, hf, fl, sd, nb) :
        m \in {WT_MAGIC, 1}, fs \in 0..MaxFrameSize, fc \in 0..MaxFrameCount,
        hf \in BOOLEAN, fl \in WtFlagWords, sd \in {0, 4},
        nb \in 0..(4 * MaxFrameSize * MaxFrameCount + 3) }

\* the files a writer produces: no flags word means flags 0, and the sample
\* bytes are the declared geometry, one byte short of it, or three bytes over
WtInputs ==
    { f \in WtFiles :
        LET need == f.written.frame_size * f.written.frame_count
                        * WtSampleWidth(BitAnd(f.written.flags, 4) # 0)
            have == Len(f.data) - (IF f.written.has_flags THEN 16 ELSE 12)
        IN /\ (~f.written.has_flags => f.written.flags = 0)
           /\ have \in {need - 1, need, need + 3} }
    \cup { [kind |-> "wt", data |-> SubSeq(PackU32LE(WT_MAGIC) \o PackU32LE(1) \o PackU32LE(1), 1, n),
            written |-> [has_flags |-> FALSE, flags |-> 0, frame_size |-> 1, frame_count |-> 1]]
           : n \in {0, 8, 11} }

\* the 16 bytes of a PCM format chunk
FmtFields(tag, channels, bits) ==
    << tag % 256, tag \div 256, channels % 256, channels \div 256 >>
        \o PackU32LE(44100) \o PackU32LE(44100 * channels * (bits \div 8))
        \o << (channels * (bits \div 8)) % 256, 0, bits % 256, bits \div 256 >>

\* a WAV file: RIFF header, an optional odd-sized chunk, a format chunk of
\* fmt_len bytes and a data chunk of audio_len bytes
MkWav(junk, fmt_len, tag, channels, bits, audio_len, seed) ==
    LET body == WAVE
                \o (IF junk THEN << 76, 73, 83, 84 >> \o PackU32LE(3) \o << 1, 2, 3, 0 >> ELSE << >>)
                \o FMT_ \o PackU32LE(fmt_len)
                \o SubSeq(FmtFields(tag, channels, bits) \o << 0, 0 >>, 1, fmt_len)
                \o DATA \o PackU32LE(audio_len) \o Bytes(seed, audio_len)
    IN [kind |-> "wav",
        data |-> RIFF \o PackU32LE(Len(body)) \o body,
        written |-> [tag |-> tag, channels |-> channels, bits |-> bits,
                     fmt_len |-> fmt_len, audio_len |-> audio_len]]

\* a one-channel PCM file whose data chunk holds the given bytes
WavOfSamples(bits, audio) ==
    [MkWav(FALSE, 16, 1, 1, bits, Len(audio), 0) EXCEPT
        !.data = SubSeq(@, 1, Len(@) - Len(audio)) \o audio]

WavTags == {1, 2, 3, 65534}
WavDepths == {0, 8, 12, 16, 24, 32}

WavInputs ==
    \* short files of every encoding
    { MkWav(FALSE, fl, t, ch, b, n * ch * (b \div 8) + r, 0) :
        fl \in {14, 16, 18}, t \in WavTags, ch \in 0..2, b \in WavDepths,
        n \in 0..MaxSmallSamples, r \in {0, 1} }
    \* a chunk before the format chunk
    \cup { MkWav(TRUE, 16, 1, 1, 16, 2 * n, 7) : n \in 0..MaxSmallSamples }
    \* whole frames, and whole frames plus one sample
    \cup { MkWav(FALSE, 16, 1, 1, 16, 2 * (256 * k + r), 7) : k \in 1..MaxWavFrames, r \in {0, 1} }
    \cup { MkWav(FALSE, 16, 1, 1, 8, 256 * k, 7) : k \in 1..MaxWavFrames }
    \* the largest, the smallest and the -1 sample of every integer width
    \cup { WavOfSamples(16, << 255, 127, 0, 128, 255, 255 >>),
            WavOfSamples(24, << 255, 255, 127, 0, 0, 128, 255, 255, 255 >>),
            WavOfSamples(32, << 255, 255, 255, 127, 0, 0, 0, 128, 255, 255, 255, 255 >>) }
    \* not a RIFF/WAVE container
    \cup { [kind |-> "wav", data |-> Bytes(0, 48),
            written |-> [tag |-> 1, channels |-> 1, bits |-> 16, fmt_len |-> 16, audio_len |-> 4]] }

\* a header name field of 28 bytes
NameField(c) == [i \in 1..28 |-> IF i = 1 THEN c ELSE 0]

\* an .fxp file: container magic, variant tag, name field, and a chunk of
\* lead bytes of framing, the markup text and the trailing bytes
MkFxp(magic, variant, name, lead, text, trail) ==
    LET chunk == [i \in 1..lead |-> 1 + (i % 7)] \o text \o trail
    IN [kind |-> "fxp",
        data |-> magic \o << 0, 0, 0, 0 >> \o variant \o [i \in 1..16 |-> 0] \o NameField(name)
                    \o << 0, 0, Len(chunk) \div 256, Len(chunk) % 256 >> \o chunk,
        written |-> [magic |-> magic, variant |-> variant, name |-> name, lead |-> lead,
                     text |-> text, trail |-> trail]]

\* the markup texts: each document, bare and after a prolog, a document
\* that lost its closing bracket, and no markup at all
FxpTexts ==
    { DocText(k) : k \in 1..Len(DocTrees) }
    \cup { XmlProlog \o DocText(k) : k \in 1..Len(DocTrees) }
    \cup { SubSeq(DocText(1), 1, Len(DocText(1)) - 1), << >> }

FxpInputs ==
    { MkFxp(m, v, nm, ld, tx, tr) :
        m \in {CCNK, RIFF}, v \in {FPCH, FXCK, WAVE}, nm \in {65, 66},
        ld \in {0, MaxLeadNoise}, tx \in FxpTexts, tr \in {<< >>, << 10 >>, << 0, 0 >>} }
    \* markup at the last offset the scan looks at, and one byte later
    \cup { MkFxp(CCNK, FPCH, 65, ld, DocText(2), tr) :
              ld \in {XmlScanLimit - 1, XmlScanLimit}, tr \in {<< >>, << 10 >>} }

\* Vital preset texts
VitalPresetJson(name, style, settings, wavetables) ==
    [ok |-> TRUE,
     preset |-> [preset_name |-> name, preset_style |-> style, author |-> Absent,
                 comments |-> Absent, settings |-> settings, wavetables |-> wavetables]]

VitalSettings ==
    { << >>,
      (<< "osc", 1, "on" >> :> Num(1000)) @@ (<< "osc", 3, "on" >> :> Num(1000))
        @@ (<< "osc", 3, "unison_voices" >> :> Num(8000))
        @@ (<< "env", 1, "attack" >> :> Num(5)) @@ (<< "env", 1, "sustain" >> :> Num(100))
        @@ (<< "fx", 9, "on" >> :> Num(1000)),
      (<< "osc", 1, "on" >> :> Num(0)) @@ (<< "osc", 2, "on" >> :> Num(1000))
        @@ (<< "filter", 2, "on" >> :> Num(1000)) @@ (<< "lfo", 8, "frequency" >> :> Num(2000)),
      (<< "filter", 1, "on" >> :> Num(1000)) @@ (<< "filter", 1, "model" >> :> NotANumber),
      (<< "filter", 1, "on" >> :> Num(0)) @@ (<< "filter", 2, "on" >> :> Num(1000))
        @@ (<< "env", 2, "attack" >> :> Num(200)) @@ (<< "env", 5, "attack" >> :> Num(0))
        @@ (<< "env", 4, "decay" >> :> Num(100))
        @@ (<< "lfo", 3, "frequency" >> :> Num(1000)) @@ (<< "lfo", 6, "frequency" >> :> Num(0))
        @@ (<< "lfo", 1, "shape" >> :> Num(2000))
        @@ (<< "fx", 2, "on" >> :> Num(0)) @@ (<< "fx", 7, "on" >> :> Num(1000))
        @@ (<< "fx", 5, "mix" >> :> Num(500)) }

VitalPresetTexts ==
    { [ok |-> FALSE] }
    \cup { VitalPresetJson(nm, st, se, wt) :
             nm \in {Absent, Attr("Deep Sub Bass")}, st \in {"", "Bass"},
             se \in VitalSettings,
             wt \in { << >>, (2 :> "Init") @@ (3 :> "Basic Shapes") } }

VitalLocs ==
    { Path(<< "presets", "Bass" >>, "Growl", "vital"),
      Path(<< >>, "Loose", "vital") }

VitalPresetInputs ==
    { [kind |-> "vital", data |-> [gz |-> gz, text |-> tx, size |-> sz], written |-> tx] :
        gz \in BOOLEAN, tx \in VitalPresetTexts, sz \in {40, 41} }

\* Vital wavetable texts: groups of components of keyframes
Keyframe(len, seed) == [len |-> len, seed |-> seed]
VitalWtGroups ==
    { << >>,
      << << << >> >> >>,
      << << << Keyframe(4 * VitalFrameSize, 0) >> >> >>,
      << << << Keyframe(8, 0), Keyframe(8, 5) >> >> >>,
      << << << Keyframe(8, 0) >>, << Keyframe(0, 0), Keyframe(12, 5) >> >>, << << Keyframe(4, 1) >> >> >>,
      << << << Keyframe(6, 0) >> >> >> }

VitalWtInputs ==
    { [kind |-> "vitalwt", data |-> [gz |-> gz, text |-> tx, size |-> 64], written |-> tx] :
        gz \in BOOLEAN,
        tx \in { [ok |-> FALSE] } \cup { [ok |-> TRUE, groups |-> g] : g \in VitalWtGroups } }

ParseInputs ==
    { [file |-> f, loc |-> l] : f \in WtInputs, l \in WtLocs("wt") }
    \cup { [file |-> f, loc |-> l] : f \in WavInputs, l \in WtLocs("wav") }
    \cup { [file |-> f, loc |-> l] : f \in FxpInputs, l \in PresetLocs }
    \cup { [file |-> f, loc |-> l] : f \in VitalPresetInputs \cup VitalWtInputs, l \in VitalLocs }

----------------------------------------------------------------------------
(* The parsers as a specification: an input is chosen, then one of the     *)
(* parsers that the pipelines apply to a file of its kind reads it.        *)

NotParsed == [parser |-> "none"]

\* no classification is running
IdleClassify ==
    /\ dbs = << >>
    /\ cls = << >>

\* the pipelines are not running
IdleIngest ==
    /\ disk = << >>
    /\ store = << >>
    /\ run = << >>
    /\ history = << >>
    /\ env = << >>

Returned(parser, r) == [parser |-> parser, asset |-> r.asset, trace |-> r.trace]

InitParse ==
    /\ input \in ParseInputs
    /\ out = NotParsed
    /\ IdleIngest
    /\ IdleClassify

\* the is_third_party flag and root of the listing a download path comes from
DownloadThirdParty(loc) == IsThirdPartyPath(loc)
DownloadRoot(loc) == IF IsThirdPartyPath(loc) THEN "wavetables_3rdparty" ELSE "wavetables"

LocalParseWt ==
    /\ out = NotParsed /\ input.file.kind = "wt"
    /\ out' = Returned("parse_surge_wt", parse_surge_wt(input.file.data, LocalPath(input.loc)))
    /\ UNCHANGED <<input, ivars, cvars>>

DownloadParseWt ==
    /\ out = NotParsed /\ input.file.kind = "wt"
    /\ out' = Returned("parse_surge_wavetable",
                 parse_surge_wavetable(input.file.data, input.loc,
                    DownloadWtCategory(input.loc, DownloadRoot(input.loc), DownloadThirdParty(input.loc)),
                    DownloadThirdParty(input.loc),
                    DownloadWtContributor(input.loc, DownloadRoot(input.loc), DownloadThirdParty(input.loc))))
    /\ UNCHANGED <<input, ivars, cvars>>

LocalParseWav ==
    /\ out = NotParsed /\ input.file.kind = "wav"
    /\ out' = Returned("parse_surge_wav", parse_surge_wav(input.file.data, LocalPath(input.loc)))
    /\ UNCHANGED <<input, ivars, cvars>>

DownloadParseWav ==
    /\ out = NotParsed /\ input.file.kind = "wav"
    /\ out' = Returned("parse_surge_wav_wavetable",
                 parse_surge_wav_wavetable(input.file.data, input.loc,
                    DownloadWtCategory(input.loc, DownloadRoot(input.loc), DownloadThirdParty(input.loc)),
                    DownloadThirdParty(input.loc),
                    DownloadWtContributor(input.loc, DownloadRoot(input.loc), DownloadThirdParty(input.loc))))
    /\ UNCHANGED <<input, ivars, cvars>>

LocalParseFxp ==
    /\ out = NotParsed /\ input.file.kind = "fxp"
    /\ out' = Returned("parse_surge_fxp", parse_surge_fxp(input.file.data, LocalPath(input.loc)))
    /\ UNCHANGED <<input, ivars, cvars>>

DownloadParseFxp ==
    /\ out = NotParsed /\ input.file.kind = "fxp"
    /\ out' = Returned("parse_surge_fxp_preset", parse_surge_fxp_preset(input.file.data, input.loc))
    /\ UNCHANGED <<input, ivars, cvars>>

ParseVitalPreset ==
    /\ out = NotParsed /\ input.file.kind = "vital"
    /\ out' = Returned("parse_vital_preset",
                 [asset |-> parse_vital_preset(input.file.data, input.loc), trace |-> NoAsset])
    /\ UNCHANGED <<input, ivars, cvars>>

ParseVitalWavetable ==
    /\ out = NotParsed /\ input.file.kind = "vitalwt"
    /\ out' = Returned("parse_vital_wavetable",
                 [asset |-> parse_vital_wavetable(input.file.data, input.loc, "Vital"),
                  trace |-> NoAsset])
    /\ UNCHANGED <<input, ivars, cvars>>

NextParse ==
    \/ LocalParseWt \/ DownloadParseWt
    \/ LocalParseWav \/ DownloadParseWav
    \/ LocalParseFxp \/ DownloadParseFxp
    \/ ParseVitalPreset \/ ParseVitalWavetable

SpecParse == InitParse /\ [][NextParse]_vars

----------------------------------------------------------------------------
(* The two ingestion pipelines: main of parse-synth-assets.py (local) and  *)
(* main of synth-asset-downloader.py (download).  A run scans its          *)
(* directories in order; one step handles one file.                        *)

MaxRuns == 2           \* ingestion runs in a behaviour
MaxStoreFaults == 1    \* store operations that fail in a behaviour
MaxNetFaults == 1      \* downloads that fail in a behaviour
MaxRewrites == 1       \* files rewritten between runs

CommitEveryWt == 50
CommitEveryPreset == 100

\* the contents a file can have
WtGood == MkWt(WT_MAGIC, 2, 1, TRUE, 0, 0, 4).data
WtGood2 == MkWt(WT_MAGIC, 2, 1, TRUE, 0, 4, 4).data
WtShort == MkWt(WT_MAGIC, 2, 2, TRUE, 0, 0, 7).data
WavGood == MkWav(FALSE, 16, 1, 1, 16, 4, 0).data
WavShortFmt == MkWav(FALSE, 14, 1, 1, 16, 4, 0).data
WavZero == MkWav(FALSE, 16, 1, 1, 0, 4, 0).data
FxpGood == MkFxp(CCNK, FPCH, 65, 0, DocText(2), << >>).data
FxpGoodRenamed == MkFxp(CCNK, FPCH, 66, 0, DocText(2), << >>).data
FxpNaN == MkFxp(CCNK, FPCH, 65, 0, DocText(3), << >>).data
VitalGood ==
    [gz |-> TRUE, size |-> 40,
     text |-> VitalPresetJson(Attr("Deep Sub Bass"), "Bass", << >>, << >>)]
VitalBad == [gz |-> FALSE, size |-> 41, text |-> [ok |-> FALSE]]

\* the files of the scanned trees in listing order: directory, path below
\* the repository root, the contents a tree can start with and the contents
\* a rewrite can give the file
Slots ==
    << [dir |-> "wavetables", loc |-> Path(RepoData \o << "wavetables", "Basic" >>, "Airy", "wav"),
        starts |-> {WavGood, WavShortFmt, WavZero}, later |-> { }],
       [dir |-> "wavetables", loc |-> Path(RepoData \o << "wavetables", "Basic" >>, "Sine", "wt"),
        starts |-> {WtGood, WtShort}, later |-> {WtGood2}],
       [dir |-> "wavetables_3rdparty",
        loc |-> Path(RepoData \o << "wavetables_3rdparty", "A.Liv", "Pads" >>, "Warm", "wt"),
        starts |-> {WtGood}, later |-> { }],
       [dir |-> "patches_factory", loc |-> Path(RepoData \o << "patches_factory", "Basses" >>, "Deep", "fxp"),
        starts |-> {FxpGood, FxpNaN}, later |-> {FxpGoodRenamed}],
       [dir |-> "patches_factory", loc |-> Path(RepoData \o << "patches_factory", "Basses" >>, "Sub", "fxp"),
        starts |-> {FxpGood}, later |-> { }],
       [dir |-> "presets", loc |-> Path(<< "presets", "Bass" >>, "Growl", "vital"),
        starts |-> {VitalBad}, later |-> { }],
       [dir |-> "presets", loc |-> Path(<< "presets", "Bass" >>, "Hum", "vital"),
        starts |-> {VitalGood}, later |-> { }] >>

\* wt_dirs and preset_dirs of the local main
LocalDirs == << "wavetables", "wavetables_3rdparty", "patches_factory", "patches_3rdparty" >>
\* wt_paths and preset_paths of download_surge_assets, then the two
\* listings of download_vital_assets
DownloadDirs == LocalDirs \o << "presets", "community" >>
Dirs(pipeline) == IF pipeline = "local" THEN LocalDirs ELSE DownloadDirs

\* the directories after which the pipeline calls conn.commit()
CommitAfter(pipeline) == IF pipeline = "local" THEN {2, 4} ELSE {2, 4, 6}

\* wt_dir.rglob('*') / list_github_directory: the files of a directory
Listing(dir) == SelectSeq([k \in 1..Len(Slots) |-> k], LAMBDA k : Slots[k].dir = dir)

\* the path string a pipeline knows a file by
FilePath(pipeline, k) == IF pipeline = "local" THEN LocalPath(Slots[k].loc) ELSE Slots[k].loc

\* the parser call of the loop body, by pipeline and file suffix
ParseFile(pipeline, k, data) ==
    LET path == FilePath(pipeline, k)
        ext == Slots[k].loc.ext
        third == Slots[k].dir = "wavetables_3rdparty"
    IN IF pipeline = "local"
       THEN IF ext = "wt" THEN parse_surge_wt(data, path).asset
            ELSE IF ext = "wav" THEN parse_surge_wav(data, path).asset
            ELSE parse_surge_fxp(data, path).asset
       ELSE IF ext = "wt"
            THEN parse_surge_wavetable(data, path, DownloadWtCategory(path, Slots[k].dir, third),
                                       third, DownloadWtContributor(path, Slots[k].dir, third)).asset
            ELSE IF ext = "wav"
            THEN parse_surge_wav_wavetable(data, path, DownloadWtCategory(path, Slots[k].dir, third),
                                           third, DownloadWtContributor(path, Slots[k].dir, third)).asset
            ELSE IF ext = "fxp" THEN parse_surge_fxp_preset(data, path).asset
            ELSE parse_vital_preset(data, path)

\* whether the body of a local parser ended in its except clause, which
\* prints 'Error parsing ...'
LocalParserPrinted(k, data) ==
    LET path == FilePath("local", k)
        ext == Slots[k].loc.ext
    IN IF ext = "wav"
       THEN parse_surge_wav_wavetable(data, path, LocalWtCategory(path), IsThirdPartyPath(path),
                                      LocalWtContributor(path)).asset.tag = "raise"
       ELSE IF ext = "fxp" THEN FxpParse(data, path, TRUE).tag = "raise"
       ELSE FALSE

IsWavetableFile(k) == Slots[k].loc.ext \in {"wt", "wav"}

\* create_database: the three tables, empty
EmptyTables == [wavetables |-> { }, presets |-> { }, metadata |-> << >>]

\* INSERT OR REPLACE INTO <table>: the row with the same primary key goes
insert_wavetable(tables, wt) ==
    [tables EXCEPT !.wavetables =
        {r \in @ : r.id # wt.id}
            \cup {[wt EXCEPT !.is_third_party = IF wt.is_third_party THEN 1 ELSE 0]}]

insert_preset(tables, preset) ==
    [tables EXCEPT !.presets = {r \in @ : r.id # preset.id} \cup {preset}]

InsertAsset(tables, k, asset) ==
    IF IsWavetableFile(k) THEN insert_wavetable(tables, asset) ELSE insert_preset(tables, asset)

\* the four metadata rows written at the end of a run
StoreMetadata(tables, n, total_wavetables, total_presets) ==
    [tables EXCEPT !.metadata =
        (("last_updated" :> n) @@ ("version" :> "1.0.0")
            @@ ("total_wavetables" :> total_wavetables)
            @@ ("total_presets" :> total_presets)) @@ @]

\* conn.commit()
Commit(s) == [s EXCEPT !.durable = s.db]
\* the connection is closed with a transaction open: its changes are lost
Rollback(s) == [s EXCEPT !.db = s.durable]

NewRun(pipeline) ==
    [pipeline |-> pipeline, status |-> "running", exit |-> 0, dir |-> 1, file |-> 0,
     wavetable_count |-> 0, preset_count |-> 0,
     \* what an observer of the run sees
     attempted |-> 0, reports |-> 0, stored |-> { }, faults |-> 0,
     store_errors |-> 0, after_error |-> FALSE, raised |-> FALSE]

\* sys.exit / an uncaught exception
Abort(r) == [r EXCEPT !.status = "aborted", !.exit = 1]

\* the trees a behaviour can start with: every file has one of its contents
Trees ==
    { << a, b, c, d, e, f, g >> :
        a \in Slots[1].starts, b \in Slots[2].starts, c \in Slots[3].starts,
        d \in Slots[4].starts, e \in Slots[5].starts, f \in Slots[6].starts,
        g \in Slots[7].starts }

InitIngest ==
    /\ input = << >>
    /\ out = NotParsed
    /\ IdleClassify
    /\ disk \in Trees
    /\ store = [db |-> EmptyTables, durable |-> EmptyTables]
    /\ run = [status |-> "idle", pipeline |-> "none"]
    /\ history = << >>
    /\ env = [runs |-> 0, store_faults |-> 0, net_faults |-> 0, rewrites |-> 0]

Running(pipeline) == run.status = "running" /\ run.pipeline = pipeline
CurrentListing == Listing(Dirs(run.pipeline)[run.dir])
InDirectory == run.dir <= Len(Dirs(run.pipeline)) /\ run.file < Len(CurrentListing)
AtDirectoryEnd == run.dir <= Len(Dirs(run.pipeline)) /\ run.file = Len(CurrentListing)

\* a store operation fails
StoreFault == env.store_faults < MaxStoreFaults
StoreFaulted == [env EXCEPT !.store_faults = @ + 1]

\* main up to create_database: the store is opened, or cannot be
Start(pipeline) ==
    /\ run.status # "running"
    /\ env.runs < MaxRuns
    /\ \/ /\ run' = NewRun(pipeline)
          /\ env' = [env EXCEPT !.runs = @ + 1]
       \/ /\ StoreFault
          /\ run' = [Abort(NewRun(pipeline)) EXCEPT !.store_errors = 1, !.faults = 1]
          /\ env' = [StoreFaulted EXCEPT !.runs = @ + 1]
    /\ UNCHANGED <<cvars, input, out, disk, store, history>>

StartLocal == Start("local")
StartDownload == Start("download")

\* what was inserted under a logical id, in order
Remember(k, asset) ==
    LET entry == [raw |-> disk[k], sha256 |-> asset.sha256]
    IN IF asset.id \in DOMAIN history
       THEN [history EXCEPT ![asset.id] = Append(@, entry)]
       ELSE history @@ (asset.id :> << entry >>)

\* the counters after a successful insert
Counted(r, k) ==
    [r EXCEPT !.wavetable_count = IF IsWavetableFile(k) THEN @ + 1 ELSE @,
              !.preset_count = IF IsWavetableFile(k) THEN @ ELSE @ + 1,
              !.stored = @ \cup {k}]

\* if wavetable_count % 50 == 0: conn.commit() (presets: % 100)
BatchFull(r, k) ==
    IF IsWavetableFile(k) THEN r.wavetable_count % CommitEveryWt = 0
    ELSE r.preset_count % CommitEveryPreset = 0

\* local main: one iteration of 'for file_path in wt_dir.rglob(..)'
LocalFileStep ==
    /\ Running("local") /\ InDirectory
    /\ \E k \in {CurrentListing[run.file + 1]} :
       \E asset \in {ParseFile("local", k, disk[k])} :
       \E seen \in {[run EXCEPT !.file = @ + 1, !.attempted = @ + 1,
                                !.reports = IF LocalParserPrinted(k, disk[k]) THEN @ + 1 ELSE @]} :
          IF ~IsAsset(asset)
          THEN /\ run' = seen
               /\ UNCHANGED <<store, history, env>>
          ELSE \/ /\ run' = Counted(seen, k)
                  /\ store' = IF BatchFull(Counted(seen, k), k)
                              THEN Commit([store EXCEPT !.db = InsertAsset(@, k, asset)])
                              ELSE [store EXCEPT !.db = InsertAsset(@, k, asset)]
                  /\ history' = Remember(k, asset)
                  /\ UNCHANGED env
               \* sqlite3 raises in insert_*: nothing catches it
               \/ /\ StoreFault
                  /\ run' = [Abort(seen) EXCEPT !.store_errors = @ + 1, !.faults = @ + 1]
                  /\ store' = Rollback(store)
                  /\ env' = StoreFaulted
                  /\ UNCHANGED history
    /\ UNCHANGED <<cvars, input, out, disk>>

\* the end of a directory, with conn.commit() after the last directory of
\* a kind
DirEnd(pipeline) ==
    /\ Running(pipeline) /\ AtDirectoryEnd
    /\ IF run.dir \in CommitAfter(pipeline)
       THEN \/ /\ run' = [run EXCEPT !.dir = @ + 1, !.file = 0]
               /\ store' = Commit(store)
               /\ UNCHANGED env
            \/ /\ StoreFault
               /\ run' = [Abort(run) EXCEPT !.store_errors = @ + 1, !.faults = @ + 1]
               /\ store' = Rollback(store)
               /\ env' = StoreFaulted
       ELSE /\ run' = [run EXCEPT !.dir = @ + 1, !.file = 0]
            /\ UNCHANGED <<store, env>>
    /\ UNCHANGED <<cvars, input, out, disk, history>>

LocalDirEnd == DirEnd("local")
DownloadDirEnd == DirEnd("download")

\* the metadata rows, the last commit and conn.close()
Finish(pipeline) ==
    /\ Running(pipeline) /\ run.dir > Len(Dirs(pipeline))
    /\ \/ /\ run' = [run EXCEPT !.status = "done"]
          /\ store' = Commit([store EXCEPT !.db =
                         StoreMetadata(@, env.runs, run.wavetable_count, run.preset_count)])
          /\ UNCHANGED env
       \/ /\ StoreFault
          /\ run' = [Abort(run) EXCEPT !.store_errors = @ + 1, !.faults = @ + 1]
          /\ store' = Rollback(store)
          /\ env' = StoreFaulted
    /\ UNCHANGED <<cvars, input, out, disk, history>>

LocalFinish == Finish("local")
DownloadFinish == Finish("download")

\* download_*_assets: one iteration of 'for file_info in ..', inside the
\* try block that wraps the whole directory
DownloadFileStep ==
    /\ Running("download") /\ InDirectory
    /\ \E k \in {CurrentListing[run.file + 1]} :
       \E asset \in {ParseFile("download", k, disk[k])} :
       \E seen \in {[run EXCEPT !.file = @ + 1, !.attempted = @ + 1,
                                !.after_error = @ \/ run.store_errors > 0]} :
       \* except Exception as e: print(f"Error scanning ..."): the loop over
       \* the files of this directory is left
       \E caught \in {[seen EXCEPT !.file = Len(CurrentListing), !.reports = @ + 1]} :
          \* download_file returns None: print("FAILED"); continue
          \/ /\ env.net_faults < MaxNetFaults
             /\ run' = [seen EXCEPT !.reports = @ + 1, !.faults = @ + 1]
             /\ env' = [env EXCEPT !.net_faults = @ + 1]
             /\ UNCHANGED <<store, history>>
          \/ /\ asset.tag = "raise"
             /\ run' = [caught EXCEPT !.raised = TRUE]
             /\ UNCHANGED <<store, history, env>>
          \* print("PARSE ERROR")
          \/ /\ asset.tag = "none"
             /\ run' = [seen EXCEPT !.reports = @ + 1]
             /\ UNCHANGED <<store, history, env>>
          \/ /\ IsAsset(asset)
             /\ run' = Counted(seen, k)
             /\ store' = [store EXCEPT !.db = InsertAsset(@, k, asset)]
             /\ history' = Remember(k, asset)
             /\ UNCHANGED env
          \* sqlite3 raises in insert_*: the except clause of the directory
          \/ /\ IsAsset(asset)
             /\ StoreFault
             /\ run' = [caught EXCEPT !.store_errors = @ + 1, !.faults = @ + 1]
             /\ env' = StoreFaulted
             /\ UNCHANGED <<store, history>>
    /\ UNCHANGED <<cvars, input, out, disk>>

\* between two runs a file of the tree gets other bytes
Rewrite ==
    /\ run.status \in {"done", "aborted"}
    /\ env.rewrites < MaxRewrites
    /\ \E k \in 1..Len(Slots) : \E data \in Slots[k].later :
          /\ disk[k] # data
          /\ disk' = [disk EXCEPT ![k] = data]
    /\ env' = [env EXCEPT !.rewrites = @ + 1]
    /\ UNCHANGED <<cvars, input, out, store, run, history>>

NextIngest ==
    \/ StartLocal \/ LocalFileStep \/ LocalDirEnd \/ LocalFinish
    \/ StartDownload \/ DownloadFileStep \/ DownloadDirEnd \/ DownloadFinish
    \/ Rewrite

SpecIngest == InitIngest /\ [][NextIngest]_vars

----------------------------------------------------------------------------
(* Classification: reorganize-synth-db.py.  A text is the sequence of its  *)
(* lower-case words; a pattern r'\bw1 w2\b' is the word sequence           *)
(* <<w1, w2>> and matches a text in which its words stand next to each     *)
(* other.                                                                  *)

CATEGORIES ==
    << "bass", "lead", "pad", "pluck", "keys", "brass", "strings", "vocal", "fx",
       "drum", "arp", "ambient", "other" >>

SUBCATEGORIES ==
    [bass |-> << "sub-bass", "reese", "growl", "wobble", "pluck-bass", "fm-bass", "acid-bass", "generic-bass" >>,
     lead |-> << "mono-lead", "poly-lead", "screech", "acid-lead", "saw-lead", "square-lead", "generic-lead" >>,
     pad |-> << "warm-pad", "evolving-pad", "ambient-pad", "dark-pad", "bright-pad", "string-pad", "generic-pad" >>,
     pluck |-> << "bell", "mallet", "pizzicato", "harpsichord", "guitar", "generic-pluck" >>,
     keys |-> << "piano", "electric-piano", "organ", "clav", "generic-keys" >>,
     brass |-> << "synth-brass", "horn", "generic-brass" >>,
     strings |-> << "synth-strings", "orchestral", "generic-strings" >>,
     vocal |-> << "choir", "formant", "talkbox", "generic-vocal" >>,
     fx |-> << "riser", "impact", "texture", "noise", "generic-fx" >>,
     drum |-> << "kick", "snare", "hihat", "perc", "generic-drum" >>,
     arp |-> << "sequence", "arp-lead", "arp-bass", "generic-arp" >>,
     ambient |-> << "drone", "soundscape", "cinematic", "generic-ambient" >>,
     other |-> << "generic" >>]

\* one-word patterns
Pats(words) == { << w >> : w \in words }

CATEGORY_KEYWORDS ==
    [bass |-> Pats({"bass", "sub", "reese", "growl", "wobble", "808", "low", "deep", "rumble",
                    "thump", "boom", "heavy", "massive", "fat"}),
     lead |-> Pats({"lead", "solo", "screech", "scream", "acid", "mono", "stab", "sharp",
                    "cutting", "bright", "searing", "laser", "sync"}),
     pad |-> Pats({"pad", "atmosphere", "ambient", "warm", "lush", "soft", "evolving", "sweep",
                   "swell", "drift", "float", "cloud", "heaven", "space"}),
     pluck |-> Pats({"pluck", "bell", "mallet", "marimba", "vibes", "kalimba", "pizz", "guitar",
                     "harp", "picked", "pling", "plink", "chime", "celeste"}),
     keys |-> Pats({"piano", "key", "organ", "clav", "rhodes", "wurli", "epiano", "ep", "tine",
                    "hammer", "keyboard", "acoustic"}),
     brass |-> Pats({"brass", "horn", "trumpet", "trombone", "blare", "fanfare", "section"}),
     strings |-> Pats({"string", "violin", "cello", "orchestra", "ensemble", "section", "legato",
                       "arco", "bowed"}),
     vocal |-> Pats({"vocal", "voice", "choir", "vox", "formant", "talk", "speech", "sing", "aah",
                     "ooh", "human"}),
     fx |-> Pats({"fx", "effect", "sfx", "noise", "texture", "riser", "impact", "hit", "swoosh",
                  "whoosh", "zap", "glitch", "stutter", "transition"}),
     drum |-> Pats({"drum", "kick", "snare", "hihat", "perc", "tom", "clap", "cymbal", "rim", "beat"})
                \cup {<< "hi", "hat" >>},
     arp |-> Pats({"arp", "arpegg", "sequence", "seq", "pattern", "pulse", "motion", "rhythmic",
                   "tempo"}),
     ambient |-> Pats({"ambient", "drone", "soundscape", "ethereal", "cinematic", "film", "movie",
                       "atmos"}),
     other |-> { }]

\* SUBCATEGORY_KEYWORDS in the order of the dict
SUBCATEGORY_KEYWORDS ==
    << [subcat |-> "sub-bass", patterns |-> Pats({"sub", "808", "pure"}) \cup {<< "sine", "bass" >>}],
       [subcat |-> "reese", patterns |-> Pats({"reese", "dnb", "neuro", "liquid"})],
       [subcat |-> "growl", patterns |-> Pats({"growl", "dubstep", "brostep", "dirty", "filthy"})],
       [subcat |-> "wobble", patterns |-> Pats({"wobble", "wub"}) \cup {<< "lfo", "bass" >>}],
       [subcat |-> "acid-bass", patterns |-> Pats({"acid", "303", "squelch"})],
       [subcat |-> "fm-bass", patterns |-> Pats({"fm", "dx"}) \cup {<< "digital", "bass" >>}],
       [subcat |-> "saw-lead", patterns |-> Pats({"saw", "supersaw", "trance"})],
       [subcat |-> "square-lead", patterns |-> Pats({"square", "pulse"})],
       [subcat |-> "warm-pad", patterns |-> Pats({"warm", "analog", "vintage"})],
       [subcat |-> "evolving-pad", patterns |-> Pats({"evolv", "morph", "moving"})],
       [subcat |-> "dark-pad", patterns |-> Pats({"dark", "ominous", "sinister"})],
       [subcat |-> "bright-pad", patterns |-> Pats({"bright", "airy", "light"})],
       [subcat |-> "bell", patterns |-> Pats({"bell", "tubular", "glock"})],
       [subcat |-> "mallet", patterns |-> Pats({"mallet", "marimba", "xylo", "vibes"})],
       [subcat |-> "electric-piano", patterns |-> Pats({"ep", "rhodes", "wurli", "tine"})],
       [subcat |-> "organ", patterns |-> Pats({"organ", "hammond", "b3", "drawbar"})],
       [subcat |-> "choir", patterns |-> Pats({"choir", "chorus", "voices"})],
       [subcat |-> "formant", patterns |-> Pats({"formant", "vowel", "talk"})],
       [subcat |-> "riser", patterns |-> Pats({"riser", "build", "tension"})],
       [subcat |-> "impact", patterns |-> Pats({"impact", "hit", "drop"})],
       [subcat |-> "drone", patterns |-> Pats({"drone", "sustain", "held"})],
       [subcat |-> "soundscape", patterns |-> Pats({"soundscape", "cinematic", "film"})] >>

\* wt_categories of classify_wavetable in the order of the dict
WT_CATEGORIES ==
    << [category |-> "basic", patterns |-> Pats({"sine", "saw", "square", "triangle", "pulse", "basic"})],
       [category |-> "analog", patterns |-> Pats({"analog", "vintage", "classic", "warm", "fat"})],
       [category |-> "digital", patterns |-> Pats({"digital", "fm", "harmonic", "additive", "spectral"})],
       [category |-> "vocal", patterns |-> Pats({"vocal", "voice", "formant", "choir", "vowel"})],
       [category |-> "strings", patterns |-> Pats({"string", "cello", "violin", "orchestra"})],
       [category |-> "keys", patterns |-> Pats({"piano", "organ", "bell", "mallet", "clav"})],
       [category |-> "brass", patterns |-> Pats({"brass", "horn", "trumpet"})],
       [category |-> "noise", patterns |-> Pats({"noise", "texture", "grainy"})],
       [category |-> "evolving", patterns |-> Pats({"evolv", "morph", "sweep", "moving"})],
       [category |-> "experimental", patterns |-> Pats({"glitch", "weird", "experimental", "crazy"})] >>

\* str.lower() and the word boundaries of a string
Words(str) ==
    CASE str = "Init Saw" -> << "init", "saw" >>
      [] str = "Deep Sub Bass" -> << "deep", "sub", "bass" >>
      [] str = "Sub Lead" -> << "sub", "lead" >>
      [] str = "Warm Bass" -> << "warm", "bass" >>
      [] str = "Fat Vintage Saw" -> << "fat", "vintage", "saw" >>
      [] str = "A.Liv" -> << "a", "liv" >>
      [] str = "Sine" -> << "sine" >>
      [] str = "Airy" -> << "airy" >>
      [] str = "Warm" -> << "warm" >>
      [] str = "Basic" -> << "basic" >>
      [] str = "Pads" -> << "pads" >>
      [] str = "Leads" -> << "leads" >>
      [] str = "Basses" -> << "basses" >>
      [] str = "Bass" -> << "bass" >>
      [] str = "Uncategorized" -> << "uncategorized" >>
      [] str = "" -> << >>
      [] OTHER -> << str >>

\* the words of a wavetable category: its path segments joined by '/'
RECURSIVE SegmentWords(_)
SegmentWords(segs) ==
    IF segs = << >> THEN << >> ELSE Words(Head(segs)) \o SegmentWords(Tail(segs))

\* the words of a preset's name: markup text, or header bytes (one word that
\* is no keyword)
NameWords(name) ==
    IF name.text # << >> THEN Words(name.text[1])
    ELSE IF name.bytes # << >> THEN << "?" >>
    ELSE << >>

\* re.search(pattern, search_text, re.IGNORECASE)
Matches(pattern, text) ==
    \E i \in 1..(Len(text) - Len(pattern) + 1) : SubSeq(text, i, i + Len(pattern) - 1) = pattern

\* 2 when some pattern of the category is found, as if the loop over the
\* patterns stopped at the first one found (a variant, not the program's)
KeywordScoreOnce(category, text) ==
    IF \E p \in CATEGORY_KEYWORDS[category] : Matches(p, text) THEN 2 ELSE 0

\* scores[category] += 2 for every pattern of the category found
KeywordScore(category, text) ==
    2 * Cardinality({p \in CATEGORY_KEYWORDS[category] : Matches(p, text)})

\* the hints of an envelope when the drum thresholds include their limits
\* (a variant, not the program's)
EnvelopeHintInclusive(category, envelope) ==
    IF envelope.name \notin {"amp", "env_1"} THEN 0
    ELSE (IF category = "pluck" /\ envelope.attack < 20 /\ envelope.decay < 300 /\ envelope.sustain < 300
          THEN 2 ELSE 0)
       + (IF category \in {"lead", "bass"} /\ envelope.attack < 20 /\ envelope.sustain > 700 THEN 1 ELSE 0)
       + (IF category = "pad" /\ envelope.attack > 100 THEN 2 ELSE 0)
       + (IF category \in {"pad", "ambient"} /\ envelope.release > 1000 THEN 1 ELSE 0)
       + (IF category = "drum" /\ envelope.attack <= 10 /\ envelope.decay <= 200 /\ envelope.sustain <= 100
          THEN 2 ELSE 0)

\* the hints of one envelope named 'amp' or 'env_1', in thousandths
EnvelopeHint(category, envelope) ==
    IF envelope.name \notin {"amp", "env_1"} THEN 0
    ELSE (IF category = "pluck" /\ envelope.attack < 20 /\ envelope.decay < 300 /\ envelope.sustain < 300
          THEN 2 ELSE 0)
       + (IF category \in {"lead", "bass"} /\ envelope.attack < 20 /\ envelope.sustain > 700 THEN 1 ELSE 0)
       + (IF category = "pad" /\ envelope.attack > 100 THEN 2 ELSE 0)
       + (IF category \in {"pad", "ambient"} /\ envelope.release > 1000 THEN 1 ELSE 0)
       + (IF category = "drum" /\ envelope.attack < 10 /\ envelope.decay < 200 /\ envelope.sustain < 100
          THEN 2 ELSE 0)

\* the hints of one oscillator
OscillatorHint(category, osc) ==
    (IF category = "lead" /\ osc.unison_voices > 4 THEN 2 ELSE 0)
       + (IF category = "bass" /\ osc.tune_semitones # 0 /\ osc.tune_semitones <= -12000
          THEN 2 ELSE 0)

\* the hints of the first envelope only, as if the loop stopped after one
\* envelope (a variant, not the program's)
EnvelopeHintsOfFirst(category, envelopes) ==
    IF envelopes = << >> THEN 0 ELSE EnvelopeHint(category, Head(envelopes))

\* for env in envelopes: ... / for osc in oscillators: ...
RECURSIVE EnvelopeHints(_, _)
EnvelopeHints(category, envelopes) ==
    IF envelopes = << >> THEN 0
    ELSE EnvelopeHint(category, Head(envelopes)) + EnvelopeHints(category, Tail(envelopes))

RECURSIVE OscillatorHints(_, _)
OscillatorHints(category, oscillators) ==
    IF oscillators = << >> THEN 0
    ELSE OscillatorHint(category, Head(oscillators)) + OscillatorHints(category, Tail(oscillators))

Score(category, text, oscillators, envelopes) ==
    KeywordScore(category, text) + EnvelopeHints(category, envelopes)
        + OscillatorHints(category, oscillators)

\* the last category with the highest score (a variant, not the program's)
BestCategoryLast(text, oscillators, envelopes) ==
    LET score == [i \in 1..Len(CATEGORIES) |-> Score(CATEGORIES[i], text, oscillators, envelopes)]
        best == CHOOSE i \in 1..Len(CATEGORIES) :
                    /\ \A j \in 1..Len(CATEGORIES) : score[j] <= score[i]
                    /\ \A j \in (i + 1)..Len(CATEGORIES) : score[j] < score[i]
    IN IF score[best] = 0 THEN "other" ELSE CATEGORIES[best]

\* max(scores, key=...): the first category, in the order of CATEGORIES,
\* with the highest score; 'other' when that score is 0
BestCategory(text, oscillators, envelopes) ==
    LET score == [i \in 1..Len(CATEGORIES) |-> Score(CATEGORIES[i], text, oscillators, envelopes)]
        best == CHOOSE i \in 1..Len(CATEGORIES) :
                    /\ \A j \in 1..Len(CATEGORIES) : score[j] <= score[i]
                    /\ \A j \in 1..(i - 1) : score[j] < score[i]
    IN IF score[best] = 0 THEN "other" ELSE CATEGORIES[best]

InSeq(x, seq) == \E i \in 1..Len(seq) : seq[i] = x

\* the last sub-category that has a pattern in the text, whichever category
\* it is registered under (a variant, not the program's)
SubcategoryAnyCategory(best_category, text) ==
    LET hits == { i \in 1..Len(SUBCATEGORY_KEYWORDS) :
                    \E p \in SUBCATEGORY_KEYWORDS[i].patterns : Matches(p, text) }
    IN IF hits # { }
       THEN SUBCATEGORY_KEYWORDS[CHOOSE i \in hits : \A j \in hits : j <= i].subcat
       ELSE IF best_category # "other" THEN "generic-" \o best_category
       ELSE "generic"

\* the sub-category when the default is 'generic' for every category (a
\* variant, not the program's)
SubcategoryPlainDefault(best_category, text) ==
    LET hits == { i \in 1..Len(SUBCATEGORY_KEYWORDS) :
                    /\ \E p \in SUBCATEGORY_KEYWORDS[i].patterns : Matches(p, text)
                    /\ InSeq(SUBCATEGORY_KEYWORDS[i].subcat, SUBCATEGORIES[best_category]) }
    IN IF hits # { }
       THEN SUBCATEGORY_KEYWORDS[CHOOSE i \in hits : \A j \in hits : j <= i].subcat
       ELSE "generic"

\* the last sub-category, in the order of SUBCATEGORY_KEYWORDS, that has a
\* pattern in the text and belongs to the category; else the generic one
Subcategory(best_category, text) ==
    LET hits == { i \in 1..Len(SUBCATEGORY_KEYWORDS) :
                    /\ \E p \in SUBCATEGORY_KEYWORDS[i].patterns : Matches(p, text)
                    /\ InSeq(SUBCATEGORY_KEYWORDS[i].subcat, SUBCATEGORIES[best_category]) }
    IN IF hits # { }
       THEN SUBCATEGORY_KEYWORDS[CHOOSE i \in hits : \A j \in hits : j <= i].subcat
       ELSE IF best_category # "other" THEN "generic-" \o best_category
       ELSE "generic"

\* classify_preset(name, original_category, oscillators_json, envelopes_json)
classify_preset(name, original_category, oscillators, envelopes) ==
    LET search_text == NameWords(name) \o Words(original_category)
        best_category == BestCategory(search_text, oscillators, envelopes)
    IN << best_category, Subcategory(best_category, search_text) >>

\* the last group with a pattern in the text (a variant, not the program's)
WavetableLastGroup(name, original_category) ==
    LET search_text == Words(name) \o SegmentWords(original_category)
        hits == { i \in 1..Len(WT_CATEGORIES) :
                    \E p \in WT_CATEGORIES[i].patterns : Matches(p, search_text) }
    IN IF hits # { }
       THEN WT_CATEGORIES[CHOOSE i \in hits : \A j \in hits : j <= i].category
       ELSE "general"

\* classify_wavetable(name, original_category)
classify_wavetable(name, original_category) ==
    LET search_text == Words(name) \o SegmentWords(original_category)
        hits == { i \in 1..Len(WT_CATEGORIES) :
                    \E p \in WT_CATEGORIES[i].patterns : Matches(p, search_text) }
    IN IF hits # { }
       THEN WT_CATEGORIES[CHOOSE i \in hits : \A j \in hits : i <= j].category
       ELSE "general"

----------------------------------------------------------------------------
(* The classification functions as a specification: a row is chosen, then  *)
(* the function for rows of its table labels it.                           *)

\* an envelope and an oscillator as the parsers write them
Env(name, attack, decay, sustain, release) ==
    [name |-> name, attack |-> attack, decay |-> decay, sustain |-> sustain, release |-> release]
Osc(tune_semitones, unison_voices) ==
    [tune_semitones |-> tune_semitones, unison_voices |-> unison_voices,
     wavetable_name |-> Absent]

\* attack 0.005, decay 0.1, sustain 0.1, release 0.1
PluckedEnvelope == Env("amp", 5, 100, 100, 100)

LabelNames ==
    { [text |-> << t >>, bytes |-> << >>] :
        t \in {"Deep Sub Bass", "Init Saw", "Sub Lead", "Warm Bass", "Airy"} }
    \cup { [text |-> << >>, bytes |-> << 73 >>] }
LabelCategories == {"", "Leads", "Pads", "Uncategorized"}
LabelOscillators ==
    { << >>, << Osc(0, 1) >>, << Osc(-12000, 1) >>, << Osc(0, 8), Osc(-24000, 1) >> }
LabelEnvelopes ==
    { << >>, << PluckedEnvelope >>, << Env("amp", 5, 100, 50, 50) >>,
      << Env("env_1", 200, 100, 800, 1500) >>, << Env("amp", 5, 100, 800, 100) >>,
      << Env("env_2", 5, 100, 100, 100) >>,
      << Env("env_2", 200, 0, 1000, 0), PluckedEnvelope >>,
      << Env("amp", 5, 100, 50, 50), Env("env_1", 200, 100, 800, 1500) >> }
LabelWtNames == {"Sine", "Warm", "Airy", "Fat Vintage Saw", "Uncategorized"}
LabelWtCategories == { << >>, << "Basic" >>, << "A.Liv", "Pads" >>, << "root" >> }

LabelInputs ==
    { [table |-> "presets", name |-> n, category |-> c, oscillators |-> o, envelopes |-> e] :
        n \in LabelNames, c \in LabelCategories, o \in LabelOscillators, e \in LabelEnvelopes }
    \cup { [table |-> "wavetables", name |-> n, category |-> c] :
              n \in LabelWtNames, c \in LabelWtCategories }

InitLabel ==
    /\ input \in LabelInputs
    /\ out = NotParsed
    /\ IdleIngest
    /\ IdleClassify

ClassifyPreset ==
    /\ out = NotParsed /\ input.table = "presets"
    /\ \E class \in {classify_preset(input.name, input.category, input.oscillators, input.envelopes)} :
          out' = [parser |-> "classify_preset", category |-> class[1], subcategory |-> class[2]]
    /\ UNCHANGED <<input, ivars, cvars>>

ClassifyWavetable ==
    /\ out = NotParsed /\ input.table = "wavetables"
    /\ out' = [parser |-> "classify_wavetable",
               category |-> classify_wavetable(input.name, input.category)]
    /\ UNCHANGED <<input, ivars, cvars>>

NextLabel == ClassifyPreset \/ ClassifyWavetable

SpecLabel == InitLabel /\ [][NextLabel]_vars

\* the search text and the scores of the preset that was labelled
LabelText == NameWords(input.name) \o Words(input.category)
LabelScore(category) == Score(category, LabelText, input.oscillators, input.envelopes)
Labelled == out.parser = "classify_preset"

\* C12: classify_preset returns 'other' when every score is zero, and
\* otherwise the category with the highest score that comes first in the
\* order bass, lead, pad, pluck, keys, brass, strings, vocal, fx, drum, arp,
\* ambient, other.
C12_BestCategory ==
    LET order == << "bass", "lead", "pad", "pluck", "keys", "brass", "strings", "vocal",
                    "fx", "drum", "arp", "ambient", "other" >>
    IN Labelled =>
        IF \A i \in 1..Len(order) : LabelScore(order[i]) = 0
        THEN out.category = "other"
        ELSE \E i \in 1..Len(order) :
                /\ out.category = order[i]
                /\ \A j \in 1..Len(order) : LabelScore(order[j]) <= LabelScore(order[i])
                /\ \A j \in 1..(i - 1) : LabelScore(order[j]) < LabelScore(order[i])

\* a preset was labelled whose highest score, not zero, is shared by two
\* categories
C12_Witness ==
    /\ Labelled
    /\ \E c, d \in DOMAIN CATEGORY_KEYWORDS :
          /\ c # d /\ LabelScore(c) = LabelScore(d) /\ LabelScore(c) > 0
          /\ \A e \in DOMAIN CATEGORY_KEYWORDS : LabelScore(e) <= LabelScore(c)

\* the preset has the envelope of PluckedEnvelope as its only envelope named
\* 'amp' or 'env_1', no category keyword in its text and no oscillator hint
PluckedOnly ==
    /\ input.table = "presets"
    /\ \E i \in 1..Len(input.envelopes) : input.envelopes[i] = PluckedEnvelope
    /\ \A i \in 1..Len(input.envelopes) :
          input.envelopes[i].name \in {"amp", "env_1"} => input.envelopes[i] = PluckedEnvelope
    /\ \A c \in DOMAIN CATEGORY_KEYWORDS :
          KeywordScore(c, LabelText) = 0 /\ OscillatorHints(c, input.oscillators) = 0

\* C13: a preset whose text has no category keyword and whose oscillators
\* give no hint, with the amplitude envelope attack 0.005, decay 0.1,
\* sustain 0.1, release 0.1, is labelled 'pluck'; pluck's score is at least
\* 2 and higher than every other category's.
C13_PluckEnvelope ==
    (Labelled /\ PluckedOnly) =>
        /\ out.category = "pluck"
        /\ LabelScore("pluck") >= 2
        /\ \A c \in DOMAIN CATEGORY_KEYWORDS \ {"pluck"} : LabelScore(c) < LabelScore("pluck")

\* such a preset, with an oscillator and a second envelope that give no
\* hint, was labelled
C13_Witness ==
    /\ Labelled /\ PluckedOnly
    /\ input.oscillators # << >> /\ Len(input.envelopes) = 2
    /\ input.name.text = << >> /\ input.category = "Uncategorized"

\* the preset named "Deep Sub Bass" with empty original category, no
\* envelopes and no oscillators
DeepSubBass ==
    /\ input.table = "presets"
    /\ input.name.text = << "Deep Sub Bass" >> /\ input.category = ""
    /\ input.envelopes = << >> /\ input.oscillators = << >>

\* the number of patterns of a category found in the text
KeywordMatches(category) ==
    Cardinality({ p \in CATEGORY_KEYWORDS[category] : Matches(p, LabelText) })

\* C14 as stated: "Deep Sub Bass" is labelled 'bass' with exactly two
\* keyword matches and a bass score of 4, the unique maximum.
C14_TwoMatches ==
    (Labelled /\ DeepSubBass) =>
        /\ out.category = "bass"
        /\ KeywordMatches("bass") = 2 /\ LabelScore("bass") = 4
        /\ \A c \in DOMAIN CATEGORY_KEYWORDS \ {"bass"} : LabelScore(c) < LabelScore("bass")

\* C14: "Deep Sub Bass" is labelled 'bass' with three keyword matches
\* (deep, sub, bass) and a bass score of 6, the unique maximum.
C14_ThreeMatches ==
    (Labelled /\ DeepSubBass) =>
        /\ out.category = "bass"
        /\ KeywordMatches("bass") = 3 /\ LabelScore("bass") = 6
        /\ \A c \in DOMAIN CATEGORY_KEYWORDS \ {"bass"} : LabelScore(c) < LabelScore("bass")

\* "Deep Sub Bass" was labelled
C14_Witness == Labelled /\ DeepSubBass /\ out.subcategory = "sub-bass"

\* the sub-categories with a pattern in the text of the labelled preset,
\* and those of them registered under a category
SubcategoryHits ==
    { SUBCATEGORY_KEYWORDS[i].subcat : i \in { j \in 1..Len(SUBCATEGORY_KEYWORDS) :
        \E p \in SUBCATEGORY_KEYWORDS[j].patterns : Matches(p, LabelText) } }
RegisteredHits(category) ==
    { sc \in SubcategoryHits : \E i \in 1..Len(SUBCATEGORIES[category]) :
        SUBCATEGORIES[category][i] = sc }

\* C15 as stated: for every chosen category, 'other' included, the
\* sub-category is 'generic-<category>' unless a sub-category registered
\* under the chosen category has a pattern in the text, and then it is such
\* a sub-category.
C15_GenericDefault ==
    Labelled =>
        IF RegisteredHits(out.category) = { }
        THEN out.subcategory = "generic-" \o out.category
        ELSE out.subcategory \in RegisteredHits(out.category)

\* C15: for every chosen category the sub-category is the default,
\* 'generic-<category>' or, for 'other', 'generic', unless a sub-category
\* registered under the chosen category has a pattern in the text, and then
\* it is such a sub-category; sub-categories registered under other
\* categories never change the result.
C15_GenericUnlessRegistered ==
    Labelled =>
        IF RegisteredHits(out.category) = { }
        THEN out.subcategory =
                (IF out.category = "other" THEN "generic" ELSE "generic-" \o out.category)
        ELSE out.subcategory \in RegisteredHits(out.category)

\* a preset was labelled whose text has a pattern of a sub-category, none of
\* them registered under the chosen category
C15_Witness ==
    /\ Labelled
    /\ SubcategoryHits # { } /\ RegisteredHits(out.category) = { }
    /\ out.category # "other"

\* the patterns of a wavetable group found in the text of the wavetable
\* that was labelled
GroupMatches(group) ==
    { p \in UNION { WT_CATEGORIES[i].patterns :
                      i \in { j \in 1..Len(WT_CATEGORIES) : WT_CATEGORIES[j].category = group } } :
        Matches(p, Words(input.name) \o SegmentWords(input.category)) }

\* C16: classify_wavetable returns the first group, in the order basic,
\* analog, digital, vocal, strings, keys, brass, noise, evolving,
\* experimental, with a pattern in the text, however many patterns of later
\* groups are in it, and 'general' when no group has one.
C16_FirstGroup ==
    LET order == << "basic", "analog", "digital", "vocal", "strings", "keys", "brass",
                    "noise", "evolving", "experimental" >>
    IN out.parser = "classify_wavetable" =>
        IF \A i \in 1..Len(order) : GroupMatches(order[i]) = { }
        THEN out.category = "general"
        ELSE \E i \in 1..Len(order) :
                /\ out.category = order[i]
                /\ GroupMatches(order[i]) # { }
                /\ \A j \in 1..(i - 1) : GroupMatches(order[j]) = { }

\* a wavetable was labelled with a group that has fewer patterns in the
\* text than a later group
C16_Witness ==
    /\ out.parser = "classify_wavetable"
    /\ out.category = "basic"
    /\ Cardinality(GroupMatches("analog")) > Cardinality(GroupMatches("basic"))

\* the sum of a sequence of numbers
RECURSIVE SumSeq(_)
SumSeq(ns) == IF ns = << >> THEN 0 ELSE Head(ns) + SumSeq(Tail(ns))

\* the bonuses one envelope and one oscillator give a category
EnvelopeBonus(c, e) ==
    (IF c = "pluck" /\ e.attack < 20 /\ e.decay < 300 /\ e.sustain < 300 THEN 2 ELSE 0)
    + (IF c \in {"lead", "bass"} /\ e.attack < 20 /\ e.sustain > 700 THEN 1 ELSE 0)
    + (IF c = "pad" /\ e.attack > 100 THEN 2 ELSE 0)
    + (IF c \in {"pad", "ambient"} /\ e.release > 1000 THEN 1 ELSE 0)
    + (IF c = "drum" /\ e.attack < 10 /\ e.decay < 200 /\ e.sustain < 100 THEN 2 ELSE 0)
OscillatorBonus(c, o) ==
    (IF c = "lead" /\ o.unison_voices > 4 THEN 2 ELSE 0)
    + (IF c = "bass" /\ o.tune_semitones <= -12000 THEN 2 ELSE 0)

\* C26: the score of every category is 2 for each of its keyword patterns
\* in the text, plus the envelope bonuses once for each envelope named
\* 'amp' or 'env_1' and for no other, plus lead +2 for each oscillator with
\* more than 4 unison voices and bass +2 for each oscillator tuned an
\* octave or more down.
C26_ScoreSum ==
    Labelled =>
        \A c \in DOMAIN CATEGORY_KEYWORDS :
            LabelScore(c) =
                2 * KeywordMatches(c)
                + SumSeq([i \in 1..Len(input.envelopes) |->
                            IF input.envelopes[i].name \in {"amp", "env_1"}
                            THEN EnvelopeBonus(c, input.envelopes[i]) ELSE 0])
                + SumSeq([i \in 1..Len(input.oscillators) |->
                            OscillatorBonus(c, input.oscillators[i])])

\* a preset was labelled that has keywords of the chosen category in its
\* text, two envelopes that give bonuses and two oscillators that give hints
C26_Witness ==
    /\ Labelled
    /\ KeywordMatches(out.category) > 1
    /\ Len(input.envelopes) = 2 /\ Len(input.oscillators) = 2
    /\ \A i \in 1..2 : \E c \in DOMAIN CATEGORY_KEYWORDS :
          EnvelopeBonus(c, input.envelopes[i]) > 0 /\ input.envelopes[i].name # "env_2"

\* A database file.  schema tells which script created its wavetables and
\* presets tables ("A": the ingestion pipelines, "B": the classification,
\* "none": a file sqlite3.connect has just created); lookup tells whether
\* the tables that only schema B has exist.
NewDb ==
    [schema |-> "none", lookup |-> FALSE, wavetables |-> { }, presets |-> { },
     metadata |-> << >>, categories |-> { }, subcategories |-> { },
     preset_wavetables |-> { }, preset_tags |-> { }]

\* a database of schema A holding the tables of a store
SchemaA(tables) ==
    [NewDb EXCEPT !.schema = "A", !.wavetables = tables.wavetables,
                  !.presets = tables.presets, !.metadata = tables.metadata]

\* the three tables of schema A
TablesA(db) == [wavetables |-> db.wavetables, presets |-> db.presets, metadata |-> db.metadata]

\* dst_cursor.executescript(...): CREATE TABLE IF NOT EXISTS for the six
\* tables, then the indexes; an index on a column that an existing table of
\* schema A lacks raises sqlite3.OperationalError
SchemaScriptFails(db) == db.schema = "A"
CreateSchemaB(db) ==
    [db EXCEPT !.lookup = TRUE, !.schema = IF @ = "none" THEN "B" ELSE @]

\* category rows numbered after the rows the table already holds (a
\* variant, not the program's)
CategoryRowsAfterExisting ==
    { [id |-> CATEGORIES[i],
       display_order |-> i - 1 + Cardinality(dbs[cls.output].categories)] :
        i \in 1..Len(CATEGORIES) }

\* the rows of the categories and subcategories tables
CategoryRows ==
    { [id |-> CATEGORIES[i], display_order |-> i - 1] : i \in 1..Len(CATEGORIES) }
SubcategoryRows ==
    UNION { { [id |-> SUBCATEGORIES[c][i], category_id |-> c, display_order |-> i - 1] :
                i \in 1..Len(SUBCATEGORIES[c]) } : c \in DOMAIN SUBCATEGORIES }

\* INSERT OR REPLACE of a set of rows with distinct primary keys
Upsert(rows, new) ==
    { r \in rows : \A n \in new : n.id # r.id } \cup new

\* PRIMARY KEY (preset_id, oscillator_index)
UpsertRefs(rows, new) ==
    { r \in rows : \A n \in new : << n.preset_id, n.oscillator_index >>
                                        # << r.preset_id, r.oscillator_index >> } \cup new

\* PRIMARY KEY (preset_id, tag)
UpsertTags(rows, new) ==
    { r \in rows : \A n \in new : << n.preset_id, n.tag >> # << r.preset_id, r.tag >> } \cup new

\* the row written for a wavetable row of the source
OrganizedWavetable(row) ==
    [id |-> row.id, name |-> row.name,
     sound_category |-> classify_wavetable(row.name, row.category),
     original_source |-> row.source, original_category |-> row.category,
     path |-> row.path, frame_count |-> row.frame_count, frame_size |-> row.frame_size,
     sample_rate |-> row.sample_rate, is_third_party |-> row.is_third_party,
     contributor |-> row.contributor, data_b64 |-> row.data_b64,
     sha256 |-> row.sha256, file_size |-> row.file_size]

\* the row written for a preset row of the source
OrganizedPreset(row) ==
    LET class == classify_preset(row.name, row.category, row.oscillators, row.envelopes)
    IN [id |-> row.id, name |-> row.name, category_id |-> class[1],
        subcategory_id |-> class[2], original_source |-> row.source,
        original_category |-> row.category, path |-> row.path, author |-> row.author,
        description |-> row.description, tags |-> row.tags,
        oscillators |-> row.oscillators, filters |-> row.filters,
        envelopes |-> row.envelopes, lfos |-> row.lfos, modulations |-> row.modulations,
        effects |-> row.effects, sha256 |-> row.sha256, file_size |-> row.file_size]

\* for i, osc in enumerate(oscs): if wt_name: INSERT OR REPLACE INTO preset_wavetables
WavetableRefs(row) ==
    { [preset_id |-> row.id, wavetable_name |-> row.oscillators[i].wavetable_name[1],
       oscillator_index |-> i - 1] :
        i \in { j \in 1..Len(row.oscillators) : row.oscillators[j].wavetable_name # Absent } }

\* tag.lower()
Lower(str) ==
    CASE str = "Warm" -> "warm"
      [] str = "BASS" -> "bass"
      [] OTHER -> str

\* for tag in tags: if tag: INSERT OR REPLACE INTO preset_tags
TagRows(row) ==
    { [preset_id |-> row.id, tag |-> Lower(row.tags[i])] :
        i \in { j \in 1..Len(row.tags) : row.tags[j] # "" } }

\* the four metadata rows of the organized database
OrganizedMetadata(db, n, wt_count, preset_count) ==
    [db EXCEPT !.metadata =
        (("last_updated" :> n) @@ ("total_wavetables" :> wt_count)
            @@ ("total_presets" :> preset_count) @@ ("version" :> "2.0.0")) @@ @]

\* The loop over 'SELECT * FROM wavetables': what the database files are
\* after it.  MoveWavetables is the loop of a classification that moves
\* the rows instead of copying them (not the program's).
MoveWavetables(files, c) ==
    [files EXCEPT ![c.output].wavetables =
                     Upsert(@, { OrganizedWavetable(r) : r \in files[c.input].wavetables }),
                  ![c.input].wavetables = { }]

CopyWavetables(files, c) ==
    [files EXCEPT ![c.output].wavetables =
                     Upsert(@, { OrganizedWavetable(r) : r \in files[c.input].wavetables })]

\* the loop over 'SELECT * FROM presets'
CopyPresets(files, c) ==
    LET rows == files[c.input].presets
    IN [files EXCEPT
          ![c.output].presets = Upsert(@, { OrganizedPreset(r) : r \in rows }),
          ![c.output].preset_wavetables =
              UpsertRefs(@, UNION { WavetableRefs(r) : r \in rows }),
          ![c.output].preset_tags = UpsertTags(@, UNION { TagRows(r) : r \in rows })]

\* the stores the classification can be given: any of these rows
SourceWavetables ==
    insert_wavetable(
        insert_wavetable(
            insert_wavetable(EmptyTables, parse_surge_wt(WtGood, FilePath("local", 2)).asset),
            parse_surge_wavetable(WtGood, Slots[3].loc,
                                  DownloadWtCategory(Slots[3].loc, Slots[3].dir, TRUE), TRUE,
                                  DownloadWtContributor(Slots[3].loc, Slots[3].dir, TRUE)).asset),
        parse_surge_wav(WavGood, FilePath("local", 1)).asset).wavetables
\* a Vital preset whose first oscillator is switched off and whose second
\* plays a wavetable
VitalSecondOsc ==
    [gz |-> FALSE, size |-> 41,
     text |-> VitalPresetJson(Absent, "",
                 (<< "osc", 1, "on" >> :> Num(0)) @@ (<< "osc", 2, "on" >> :> Num(1000)),
                 (2 :> "Init"))]
SourcePresets ==
    insert_preset(
        insert_preset(
            insert_preset(
                insert_preset(EmptyTables, parse_surge_fxp(FxpGood, FilePath("local", 4)).asset),
                parse_surge_fxp_preset(FxpGoodRenamed, Slots[5].loc).asset),
            parse_vital_preset(VitalGood, Slots[7].loc)),
        parse_vital_preset(VitalSecondOsc, Slots[6].loc)).presets
\* the tags column: the pipelines leave it '[]'; a store that another writer
\* of schema A has filled holds a list of tags
SourceTags == << "Warm", "", "BASS" >>
WithTags(rows, tagged) == IF tagged THEN { [r EXCEPT !.tags = SourceTags] : r \in rows } ELSE rows
SourceStores(wts, presets) ==
    { StoreMetadata([wavetables |-> w, presets |-> WithTags(p, t), metadata |-> << >>], 1,
                    Cardinality(w), Cardinality(p)) :
        w \in SUBSET wts, p \in SUBSET presets, t \in BOOLEAN }

\* an organized database left by an earlier classification
EarlierOutput(wts, presets) ==
    LET files == [in |-> SchemaA([wavetables |-> wts, presets |-> WithTags(presets, TRUE),
                                  metadata |-> << >>]),
                  out |-> CreateSchemaB(NewDb)]
        c == [input |-> "in", output |-> "out"]
    IN OrganizedMetadata(CopyPresets(CopyWavetables(files, c), c).out, 0,
                         Cardinality(wts), Cardinality(presets))

\* the tables the classification writes, the metadata aside
ClassTables(db) ==
    [categories |-> db.categories, subcategories |-> db.subcategories,
     wavetables |-> db.wavetables, presets |-> db.presets,
     preset_wavetables |-> db.preset_wavetables, preset_tags |-> db.preset_tags]

MaxClassifyRuns == 2     \* runs of the classification in a behaviour

InitClassify ==
    /\ input = << >>
    /\ out = NotParsed
    /\ IdleIngest
    /\ \E wts \in {SourceWavetables} : \E presets \in {SourcePresets} :
       \E tables \in SourceStores(wts, presets) :
       \E earlier \in {EarlierOutput(wts, presets)} : \E old \in {NewDb, earlier} :
          dbs = [assets |-> SchemaA(tables), instruments |-> old]
    /\ cls = [status |-> "idle", input |-> "assets", output |-> "assets",
              wt_count |-> 0, preset_count |-> 0, before |-> TablesA(dbs["assets"]),
              runs |-> 0, first |-> << >>]

\* main: create_organized_database(input, output); the output may name any
\* file, the input file included.  The script can be run again once a run
\* has ended.
ClassifyStart ==
    /\ cls.status \in {"idle", "done", "aborted"}
    /\ cls.runs < MaxClassifyRuns
    /\ \E output \in DOMAIN dbs :
          cls' = [cls EXCEPT !.status = "schema", !.output = output,
                             !.wt_count = 0, !.preset_count = 0,
                             !.before = TablesA(dbs["assets"]),
                             !.runs = @ + 1]
    /\ UNCHANGED <<pvars, ivars, dbs>>

\* the schema script, then the category and sub-category rows and a commit
ClassifySchema ==
    /\ cls.status = "schema"
    /\ IF SchemaScriptFails(dbs[cls.output])
       THEN /\ dbs' = [dbs EXCEPT ![cls.output].lookup = TRUE]
            /\ cls' = [cls EXCEPT !.status = "aborted"]
       ELSE /\ dbs' = [dbs EXCEPT ![cls.output] =
                          [CreateSchemaB(@) EXCEPT
                              !.categories = Upsert(@, CategoryRows),
                              !.subcategories = Upsert(@, SubcategoryRows)]]
            /\ cls' = [cls EXCEPT !.status = "wavetables"]
    /\ UNCHANGED <<pvars, ivars>>

ClassifyWavetables ==
    /\ cls.status = "wavetables"
    /\ dbs' = CopyWavetables(dbs, cls)
    /\ cls' = [cls EXCEPT !.status = "presets",
                          !.wt_count = Cardinality(dbs[cls.input].wavetables)]
    /\ UNCHANGED <<pvars, ivars>>

ClassifyPresets ==
    /\ cls.status = "presets"
    /\ dbs' = CopyPresets(dbs, cls)
    /\ cls' = [cls EXCEPT !.status = "metadata",
                          !.preset_count = Cardinality(dbs[cls.input].presets)]
    /\ UNCHANGED <<pvars, ivars>>

\* the metadata table and its rows, the last commit, both connections closed
ClassifyFinish ==
    /\ cls.status = "metadata"
    /\ dbs' = [dbs EXCEPT ![cls.output] = OrganizedMetadata(@, 2, cls.wt_count, cls.preset_count)]
    /\ cls' = [cls EXCEPT !.status = "done",
                          !.first = IF cls.output \in DOMAIN @ THEN @
                                    ELSE @ @@ (cls.output :> ClassTables(dbs'[cls.output]))]
    /\ UNCHANGED <<pvars, ivars>>

NextClassify ==
    \/ ClassifyStart \/ ClassifySchema \/ ClassifyWavetables \/ ClassifyPresets
    \/ ClassifyFinish

SpecClassify == InitClassify /\ [][NextClassify]_vars

----------------------------------------------------------------------------
(* Properties of the parsers *)

WtParsers == {"parse_surge_wt", "parse_surge_wavetable"}
WavParsers == {"parse_surge_wav", "parse_surge_wav_wavetable"}
FxpParsers == {"parse_surge_fxp", "parse_surge_fxp_preset"}
WavetableParsers == WtParsers \cup WavParsers \cup {"parse_vital_wavetable"}

\* the header fields of a .wt buffer, read off the bytes
RawMagicOk(d) == Len(d) >= 12 /\ SubSeq(d, 1, 4) = << 115, 118, 97, 119 >>
RawFrameSize(d) == d[5] + 256 * d[6] + 65536 * d[7] + 16777216 * d[8]
RawFrameCount(d) == d[9] + 256 * d[10] + 65536 * d[11] + 16777216 * d[12]
RawHeaderLength(d) == IF Len(d) >= 16 THEN 16 ELSE 12
RawIsFloat(d) == Len(d) >= 16 /\ (d[13] \div 4) % 2 = 1
RawUpperBound(d) ==
    RawHeaderLength(d) + RawFrameCount(d) * RawFrameSize(d) * (IF RawIsFloat(d) THEN 4 ELSE 2)

\* C2: the .wt parser of either pipeline unpacks exactly the bytes
\* [header_length, header_length + frame_count * frame_size * width), width 4
\* for float and 2 for int16, every sample coming from its own width bytes of
\* that range; a buffer shorter than the upper bound, shorter than 12 bytes
\* or with a wrong magic yields no asset.
C2_ConsumedRange ==
    out.parser \in WtParsers =>
        LET d == input.file.data
        IN /\ (~RawMagicOk(d) => out.asset = NoAsset)
           /\ (RawMagicOk(d) /\ Len(d) < RawUpperBound(d) => out.asset = NoAsset)
           /\ (IsAsset(out.asset) =>
                 LET w == IF RawIsFloat(d) THEN 4 ELSE 2
                     n == RawFrameCount(d) * RawFrameSize(d)
                 IN /\ out.trace.lo = RawHeaderLength(d)
                    /\ out.trace.hi = RawHeaderLength(d) + n * w
                    /\ out.trace.hi <= Len(d)
                    /\ Len(out.asset.data_b64) * w = out.trace.hi - out.trace.lo
                    /\ \A i \in 1..n :
                         LET at == out.trace.lo + w * (i - 1)
                         IN IF w = 4
                            THEN out.asset.data_b64[i] = SubSeq(d, at + 1, at + 4)
                            ELSE out.asset.data_b64[i][1] % 65536 = d[at + 1] + 256 * d[at + 2])

\* a float file with bytes after its declared geometry was parsed
C2_Witness ==
    /\ out.parser \in WtParsers
    /\ IsAsset(out.asset)
    /\ RawIsFloat(input.file.data)
    /\ out.trace.lo < out.trace.hi
    /\ out.trace.hi < Len(input.file.data)

\* a buffer one byte short of its declared geometry was rejected
C2_WitnessShort ==
    /\ out.parser \in WtParsers
    /\ RawMagicOk(input.file.data)
    /\ Len(input.file.data) = RawUpperBound(input.file.data) - 1
    /\ out.asset = NoAsset

\* C3: a .wt file written without the flags field is decoded with header
\* length 12 and as int16, a file written with the flags field is decoded
\* with header length 16, and as float32 exactly when bit 0x04 of the flags
\* is set.
C3_FlagsField ==
    (out.parser \in WtParsers /\ out.trace # NoAsset) =>
        LET w == input.file.written
        IN IF w.has_flags
           THEN /\ out.trace.header_size = 16
                /\ out.trace.is_float = ((w.flags \div 4) % 2 = 1)
           ELSE /\ out.trace.header_size = 12
                /\ ~out.trace.is_float

\* C4: every wavetable asset a parser returns holds frame_count * frame_size
\* samples.
C4_PayloadLength ==
    (out.parser \in WavetableParsers /\ IsAsset(out.asset)) =>
        Len(out.asset.data_b64) = out.asset.frame_count * out.asset.frame_size

\* the first of 256, 512, 1024, 2048, 4096 that divides n, or 2048
FirstDividing(n) ==
    IF n % 256 = 0 THEN 256 ELSE IF n % 512 = 0 THEN 512 ELSE IF n % 1024 = 0 THEN 1024
    ELSE IF n % 2048 = 0 THEN 2048 ELSE IF n % 4096 = 0 THEN 4096 ELSE 2048

\* C17: the frame size of an asset the WAV parser returns is the first of
\* 256, 512, 1024, 2048, 4096 that divides the sample count, or 2048 when
\* none does, and its payload holds whole frames only.
C17_WholeFrames ==
    (out.parser \in WavParsers /\ IsAsset(out.asset)) =>
        /\ out.asset.frame_size = FirstDividing(out.trace.total_samples)
        /\ Len(out.asset.data_b64) % out.asset.frame_size = 0

\* the segments of a directory path after the first segment equal to marker
RECURSIVE AfterMarker(_, _)
AfterMarker(segs, marker) ==
    IF segs = << >> THEN << >>
    ELSE IF Head(segs) = marker THEN Tail(segs)
    ELSE AfterMarker(Tail(segs), marker)

\* C18: for a wavetable in a contributor's directory under the third-party
\* root the contributor is the first segment after the root and the category
\* the directory segments after the contributor; under the plain wavetable
\* root there is no contributor and the category is the directory segments
\* after the root, or 'root' when there are none.
C18_PathDerivation ==
    (out.parser \in WtParsers \cup WavParsers /\ IsAsset(out.asset)) =>
        IF \E i \in 1..Len(input.loc.segs) : input.loc.segs[i] = "wavetables_3rdparty"
        THEN LET rest == AfterMarker(input.loc.segs, "wavetables_3rdparty")
             IN rest # << >> =>
                  /\ out.asset.contributor = << rest[1] >>
                  /\ out.asset.category = Tail(rest)
        ELSE LET rest == AfterMarker(input.loc.segs, "wavetables")
             IN /\ out.asset.contributor = << >>
                /\ out.asset.category = (IF rest = << >> THEN << "root" >> ELSE rest)

\* the slot numbers of the specs in a list of the returned preset
SlotNumbers(list, field) ==
    [k \in 1..Len(list) |->
        IF field = "index" THEN list[k].index + 1
        ELSE IF field = "name"
        THEN CHOOSE i \in EnvSlots : VitalEnvName(i) = list[k].name
        ELSE CHOOSE i \in 1..Len(EffectTypes) : EffectTypes[i] = list[k].effect_type]

\* every slot of the list has its defining key in the settings, and the
\* slots ascend
SlotsPresent(slots, settings, kind, key) ==
    /\ \A k \in 1..Len(slots) : << kind, slots[k], key >> \in DOMAIN settings
    /\ \A k \in 1..(Len(slots) - 1) : slots[k] < slots[k + 1]

\* C19: the preset the compressed-JSON parser returns has an oscillator,
\* filter, envelope, LFO or effect only for a slot whose defining key
\* ('on', 'attack' or 'frequency') is in the settings map, and each list is
\* in ascending slot order.
C19_SlotsPresent ==
    (out.parser = "parse_vital_preset" /\ IsAsset(out.asset)) =>
        LET settings == input.file.written.preset.settings
        IN /\ SlotsPresent(SlotNumbers(out.asset.oscillators, "index"), settings, "osc", "on")
           /\ SlotsPresent(SlotNumbers(out.asset.filters, "index"), settings, "filter", "on")
           /\ SlotsPresent(SlotNumbers(out.asset.envelopes, "name"), settings, "env", "attack")
           /\ SlotsPresent(SlotNumbers(out.asset.lfos, "index"), settings, "lfo", "frequency")
           /\ SlotsPresent(SlotNumbers(out.asset.effects, "effect_type"), settings, "fx", "on")

\* a preset was returned with two envelopes, two LFOs and two effects, from
\* settings that hold other keys of slots whose defining key is absent
C19_Witness ==
    /\ out.parser = "parse_vital_preset" /\ IsAsset(out.asset)
    /\ Len(out.asset.envelopes) = 2 /\ Len(out.asset.lfos) = 2 /\ Len(out.asset.effects) = 2
    /\ Len(out.asset.filters) = 2
    /\ << "env", 4, "decay" >> \in DOMAIN input.file.written.preset.settings

\* C7: the WAV parser returns no asset when the format tag is not 1 or 3 or
\* the bit depth is not 16, 24 or 32, and an asset it returns holds every
\* sample of the data chunk that fits its frames.
C7_UnsupportedEncoding ==
    (out.parser \in WavParsers /\ input.file.written.fmt_len >= 16) =>
        LET w == input.file.written
        IN /\ (w.tag \notin {1, 3} => ~IsAsset(out.asset))
           /\ (w.bits \notin {16, 24, 32} => ~IsAsset(out.asset))
           /\ (IsAsset(out.asset) => Len(out.asset.data_b64) > 0)

\* the same file with another first byte in the header name field
FxpRenamed(f) ==
    MkFxp(f.written.magic, f.written.variant, 131 - f.written.name, f.written.lead,
          f.written.text, f.written.trail)

\* the raw bytes and their length, for every kind of input
RawHash(f) == << "sha256", f.data >>
RawSize(f) == IF f.kind \in {"vital", "vitalwt"} THEN f.data.size ELSE Len(f.data)

\* C9: an asset's content hash is the hash of the whole input file and its
\* size the length of the file, so a preset file that differs only in its
\* header name field gets another hash.
C9_RawHash ==
    (out.parser # "none" /\ IsAsset(out.asset)) =>
        /\ out.asset.sha256 = RawHash(input.file)
        /\ out.asset.file_size = RawSize(input.file)
        /\ (out.parser = "parse_surge_fxp" =>
              LET other == parse_surge_fxp(FxpRenamed(input.file).data, LocalPath(input.loc)).asset
              IN IsAsset(other) => other.sha256 # out.asset.sha256)
        /\ (out.parser = "parse_surge_fxp_preset" =>
              LET other == parse_surge_fxp_preset(FxpRenamed(input.file).data, input.loc).asset
              IN IsAsset(other) => other.sha256 # out.asset.sha256)

----------------------------------------------------------------------------
(* Properties of the pipelines *)

Rows == store.db.wavetables \cup store.db.presets

\* the files a pipeline scans
Scanned(pipeline) ==
    { k \in 1..Len(Slots) : \E i \in 1..Len(Dirs(pipeline)) : Dirs(pipeline)[i] = Slots[k].dir }

\* C1: the store holds at most one row per logical id, the id being that of
\* the path alone, and of two inserts under one id the second keeps the
\* content hash exactly when the bytes are the same: changed bytes give the
\* row a new content hash.
C1_UpsertByPath ==
    /\ \A r1 \in Rows : \A r2 \in Rows : r1.id = r2.id => r1 = r2
    /\ \A r \in Rows : r.id = << "sha256/16", r.path >>
    /\ \A id \in DOMAIN history :
         \A i \in 1..Len(history[id]) : \A j \in 1..Len(history[id]) :
            (history[id][i].raw = history[id][j].raw)
                <=> (history[id][i].sha256 = history[id][j].sha256)

\* the part of C1 about rows: one row per logical id, the id that of the path
OneRowPerPath ==
    /\ \A r1 \in Rows : \A r2 \in Rows : r1.id = r2.id => r1 = r2
    /\ \A r \in Rows : r.id = << "sha256/16", r.path >>

\* C5: no exception leaves a parser, and a run that met no store or network
\* failure has stored every file of its directories that parses, whatever
\* was listed before it.
C5_BatchSurvives ==
    /\ (run.status \in {"running", "done", "aborted"} => ~run.raised)
    /\ (run.status = "done" /\ run.faults = 0) =>
          \A k \in Scanned(run.pipeline) :
             IsAsset(ParseFile(run.pipeline, k, disk[k])) => k \in run.stored

\* C6: at the end of a run every file attempted was either stored or
\* counted as a failure (the failure messages printed stand for the count).
C6_FailureCounter ==
    run.status = "done" =>
        run.attempted = run.wavetable_count + run.preset_count + run.reports

\* C8: once a store operation has failed the run is aborted with a nonzero
\* exit status and handles no further file.
C8_StoreFatal ==
    (run.status # "idle" /\ run.store_errors > 0) =>
        /\ run.status = "aborted"
        /\ run.exit # 0
        /\ ~run.after_error

----------------------------------------------------------------------------
(* The commits of a run, by the number of records: the loops of the two    *)
(* pipelines over directories of any length, each step one record that the *)
(* loop body inserts.  open counts the records inserted since the last     *)
(* conn.commit().                                                          *)

MaxRecords == 101      \* records of a kind that a run inserts

InitBatch ==
    /\ input = << >>
    /\ out = NotParsed
    /\ IdleClassify
    /\ disk = << >> /\ store = << >> /\ history = << >> /\ env = << >>
    /\ run \in { [pipeline |-> p, status |-> "running", dir |-> 1,
                  wavetable_count |-> 0, preset_count |-> 0, open |-> 0] :
                    p \in {"local", "download"} }

\* insert_wavetable / insert_preset and the counter; the local loops commit
\* when the counter reaches a multiple of 50 (presets: 100)
InsertRecord ==
    /\ run.status = "running" /\ run.dir <= Len(Dirs(run.pipeline))
    /\ IF run.dir <= 2 THEN run.wavetable_count < MaxRecords
       ELSE run.preset_count < MaxRecords
    /\ \E counted \in {[run EXCEPT !.wavetable_count = IF run.dir <= 2 THEN @ + 1 ELSE @,
                                    !.preset_count = IF run.dir <= 2 THEN @ ELSE @ + 1,
                                    !.open = @ + 1]} :
          run' = IF /\ run.pipeline = "local"
                    /\ IF run.dir <= 2 THEN counted.wavetable_count % CommitEveryWt = 0
                       ELSE counted.preset_count % CommitEveryPreset = 0
                 THEN [counted EXCEPT !.open = 0]
                 ELSE counted
    /\ UNCHANGED <<cvars, input, out, disk, store, history, env>>

\* the end of a directory's loop, with conn.commit() after the last
\* directory of a kind
EndDirectory ==
    /\ run.status = "running" /\ run.dir <= Len(Dirs(run.pipeline))
    /\ run' = [run EXCEPT !.dir = @ + 1,
                          !.open = IF run.dir \in CommitAfter(run.pipeline) THEN 0 ELSE @]
    /\ UNCHANGED <<cvars, input, out, disk, store, history, env>>

\* the metadata rows, the last conn.commit() and conn.close()
StoreTotals ==
    /\ run.status = "running" /\ run.dir > Len(Dirs(run.pipeline))
    /\ run' = [run EXCEPT !.status = "done", !.open = 0]
    /\ UNCHANGED <<cvars, input, out, disk, store, history, env>>

NextBatch == InsertRecord \/ EndDirectory \/ StoreTotals

SpecBatch == InitBatch /\ [][NextBatch]_vars

\* C20: in every pipeline, at every point of a run at most 100 records have
\* been inserted since the last commit, and when the run completes every
\* inserted record has been committed.
C20_BatchedCommits ==
    /\ run.open <= 100
    /\ run.status = "done" => run.open = 0

----------------------------------------------------------------------------
(* Properties of the classification *)

\* C10: while and after create_organized_database runs, the wavetables,
\* presets and metadata tables of the source store are what they were when
\* it started.
C10_SourceUntouched ==
    cls.status # "idle" => TablesA(dbs[cls.input]) = cls.before

\* a classification of a store with wavetables and presets has finished and
\* written them to the other file
C10_Witness ==
    /\ cls.status = "done"
    /\ cls.before.wavetables # { } /\ cls.before.presets # { }
    /\ dbs[cls.output].wavetables # { } /\ dbs[cls.output].presets # { }
    /\ dbs[cls.output].metadata["version"] = "2.0.0"

\* C11: once a run of the classification into a destination has completed,
\* every later run into it with the same source leaves the categories,
\* subcategories, wavetables, presets, preset_wavetables and preset_tags
\* tables of the destination as that first run left them.
C11_Idempotent ==
    \A o \in DOMAIN cls.first : ClassTables(dbs[o]) = cls.first[o]

\* a second run into the same destination has completed (no run went into
\* the source file), with wavetables, presets and wavetable references
\* written
C11_Witness ==
    /\ cls.status = "done" /\ cls.runs = 2
    /\ cls.output = "instruments" /\ ~dbs["assets"].lookup
    /\ cls.output \in DOMAIN cls.first
    /\ dbs[cls.output].metadata["total_wavetables"] = Cardinality(dbs[cls.output].wavetables)
    /\ dbs[cls.output].wavetables # { } /\ dbs[cls.output].presets # { }
    /\ dbs[cls.output].preset_wavetables # { }

\* C21: once the loop over the presets has run, the destination holds, for
\* every preset of the source, one preset_wavetables row per oscillator
\* that names a wavetable, with the slot index recorded in the oscillator,
\* and one preset_tags row per non-empty tag, in lower case.
C21_ReferenceSlots ==
    cls.status \in {"metadata", "done"} =>
        \A row \in dbs[cls.input].presets :
            /\ \A i \in 1..Len(row.oscillators) :
                  row.oscillators[i].wavetable_name # Absent =>
                     [preset_id |-> row.id,
                      wavetable_name |-> row.oscillators[i].wavetable_name[1],
                      oscillator_index |-> row.oscillators[i].index]
                        \in dbs[cls.output].preset_wavetables
            /\ \A i \in 1..Len(row.tags) :
                  row.tags[i] # "" =>
                     [preset_id |-> row.id, tag |-> Lower(row.tags[i])]
                        \in dbs[cls.output].preset_tags

\* the chunk of an .fxp buffer and the offsets in it where '<?xml' or
\* '<patch' begins and where '>' stands
RawChunk(d) == SubSeq(d, 61, Len(d))
TokenOffsets(c) ==
    { i \in 0..(Len(c) - 5) :
        \/ SubSeq(c, i + 1, i + 5) = << 60, 63, 120, 109, 108 >>
        \/ i + 6 <= Len(c) /\ SubSeq(c, i + 1, i + 6) = << 60, 112, 97, 116, 99, 104 >> }
BracketOffsets(c) == { i \in 0..(Len(c) - 1) : c[i + 1] = 62 }

\* C22: the .fxp parser returns no asset for the FxCk variant, for a chunk
\* whose first start token lies at offset 1000 or later and for a chunk
\* without a start token; the markup of an asset it returns runs from the
\* first start token to the last '>' of the chunk.
C22_ChunkMarkup ==
    out.parser \in FxpParsers =>
        LET w == input.file.written
            c == RawChunk(input.file.data)
        IN /\ (w.variant # << 70, 80, 67, 104 >> => ~IsAsset(out.asset))
           /\ (\A i \in TokenOffsets(c) : i >= 1000) => ~IsAsset(out.asset)
           /\ IsAsset(out.asset) =>
                 \E a \in TokenOffsets(c) : \E b \in BracketOffsets(c) :
                    /\ \A i \in TokenOffsets(c) : a <= i
                    /\ \A i \in BracketOffsets(c) : i <= b
                    /\ out.asset.raw_data = SubSeq(c, a + 1, b + 1)

\* an asset was returned for markup that begins at offset 999 of a chunk
\* with a byte after the last '>'
C22_Witness ==
    /\ out.parser \in FxpParsers /\ IsAsset(out.asset)
    /\ input.file.written.lead = 999
    /\ input.file.written.trail # << >>

\* the sub-chunk walk as described: from pos, chunk by chunk (8 bytes, the
\* size and a pad byte after an odd size) until fewer than least bytes
\* remain or a chunk is named 'data'
RECURSIVE ChunkWalk(_, _, _, _)
ChunkWalk(d, pos, least, n) ==
    IF Len(d) - pos < least THEN [pos |-> pos, data |-> FALSE, chunks |-> n]
    ELSE IF SubSeq(d, pos + 1, pos + 4) = << 100, 97, 116, 97 >>
    THEN [pos |-> pos, data |-> TRUE, chunks |-> n + 1]
    ELSE LET size == d[pos + 5] + 256 * d[pos + 6] + 65536 * d[pos + 7] + 16777216 * d[pos + 8]
         IN ChunkWalk(d, pos + 8 + size + (size % 2), least, n + 1)

\* the walk of the WAV parser over the input, for a RIFF/WAVE buffer
WalkedInput ==
    /\ out.parser \in WavParsers
    /\ Len(input.file.data) >= 44
    /\ SubSeq(input.file.data, 1, 4) = << 82, 73, 70, 70 >>
    /\ SubSeq(input.file.data, 9, 12) = << 87, 65, 86, 69 >>

\* C23 as stated: the walk advances by at least 8 bytes per iteration and
\* ends when fewer than 8 bytes remain or at the first 'data' chunk; no
\* asset is returned when 'fmt ' or 'data' was not found.
C23_WalkBelowEight ==
    WalkedInput =>
        LET d == input.file.data
            walk == WavWalk(d, 12, WavWalkStart)
            told == ChunkWalk(d, 12, 8, 0)
        IN /\ walk.steps = told.chunks /\ walk.pos = told.pos /\ walk.data_found = told.data
           /\ 12 + 8 * walk.steps <= Len(d)
           /\ (~walk.fmt_found \/ ~walk.data_found) => ~IsAsset(out.asset)

\* C23: the walk advances by at least 8 bytes per iteration and ends when
\* 8 or fewer bytes remain or at the first 'data' chunk; no asset is
\* returned when 'fmt ' or 'data' was not found.
C23_WalkEnds ==
    WalkedInput =>
        LET d == input.file.data
            walk == WavWalk(d, 12, WavWalkStart)
            told == ChunkWalk(d, 12, 9, 0)
        IN /\ walk.steps = told.chunks /\ walk.pos = told.pos /\ walk.data_found = told.data
           /\ 12 + 8 * walk.steps <= Len(d)
           /\ (~walk.fmt_found \/ ~walk.data_found) => ~IsAsset(out.asset)

\* a buffer was walked whose 'data' chunk follows a chunk of odd size and
\* the format chunk
C23_Witness ==
    /\ WalkedInput /\ IsAsset(out.asset)
    /\ WavWalk(input.file.data, 12, WavWalkStart).steps = 3

\* a buffer was walked that ends with the 8 bytes of an empty 'data' chunk
C23_WitnessEight ==
    /\ WalkedInput
    /\ ~WavWalk(input.file.data, 12, WavWalkStart).data_found
    /\ ChunkWalk(input.file.data, 12, 8, 0).data

\* C24: after a classification run the derived tables of the destination
\* hold only rows that derive from the source as it is at this run: every
\* wavetable and preset row is a row of the source, every preset_wavetables
\* row names a wavetable that an oscillator of that preset names, and every
\* preset_tags row a tag of that preset.
C24_OnlyDerivable ==
    cls.status = "done" =>
        LET src == dbs[cls.input]
            dst == dbs[cls.output]
        IN /\ \A r \in dst.wavetables : \E w \in src.wavetables : w.id = r.id
           /\ \A r \in dst.presets : \E q \in src.presets : q.id = r.id
           /\ \A r \in dst.preset_wavetables :
                 \E q \in src.presets :
                    /\ q.id = r.preset_id
                    /\ \E i \in 1..Len(q.oscillators) :
                          q.oscillators[i].wavetable_name = << r.wavetable_name >>
           /\ \A r \in dst.preset_tags :
                 \E q \in src.presets :
                    /\ q.id = r.preset_id
                    /\ \E i \in 1..Len(q.tags) : Lower(q.tags[i]) = r.tag

\* C25: after every completed ingestion run the metadata values
\* total_wavetables and total_presets are the numbers of rows of the
\* wavetables and presets tables.
C25_TotalsAreRowCounts ==
    run.status = "done" =>
        /\ store.db.metadata["total_wavetables"] = Cardinality(store.db.wavetables)
        /\ store.db.metadata["total_presets"] = Cardinality(store.db.presets)

\* a pair of a category and a sub-category is registered: the category is
\* one of CATEGORIES and the sub-category is listed under it
RegisteredPair(category, subcategory) ==
    /\ InSeq(category, CATEGORIES)
    /\ InSeq(subcategory, SUBCATEGORIES[category])

\* every pair classify_preset returns for the presets that can be labelled
\* is registered
LabelPairsRegistered ==
    \A p \in { i \in LabelInputs : i.table = "presets" } :
        \E class \in {classify_preset(p.name, p.category, p.oscillators, p.envelopes)} :
            RegisteredPair(class[1], class[2])

\* C27: every pair classify_preset returns is registered (the category is
\* one of the 13 categories, the sub-category is listed under it), so once
\* a classification has ended every preset row of the destination refers to
\* a row of its categories table and to a row of its subcategories table
\* of that category, and every sub-category id is under one category only.
C27_RegisteredPairs ==
    /\ Len(CATEGORIES) = 13
    /\ LabelPairsRegistered
    /\ cls.status = "done" =>
          /\ \A p \in dbs[cls.output].presets :
                /\ RegisteredPair(p.category_id, p.subcategory_id)
                /\ \E c \in dbs[cls.output].categories : c.id = p.category_id
                /\ \E sc \in dbs[cls.output].subcategories :
                      sc.id = p.subcategory_id /\ sc.category_id = p.category_id
          /\ \A sc, t \in dbs[cls.output].subcategories :
                sc.id = t.id => sc.category_id = t.category_id
          /\ \A sc \in dbs[cls.output].subcategories :
                Cardinality({ c \in DOMAIN SUBCATEGORIES : InSeq(sc.id, SUBCATEGORIES[c]) }) = 1

\* a classification has ended that wrote a preset with the default
\* sub-category of a category other than 'other' and a preset with a
\* sub-category found by its keywords
C27_Witness ==
    /\ cls.status = "done"
    /\ \E p, q \in dbs[cls.output].presets :
          /\ p.category_id # "other" /\ p.subcategory_id = "generic-" \o p.category_id
          /\ q.subcategory_id \notin { "generic", "generic-" \o q.category_id }

\* what the download pipeline returns for the file and location the local
\* pipeline has just parsed
DownloadCounterpart ==
    CASE out.parser = "parse_surge_wt" ->
            parse_surge_wavetable(input.file.data, input.loc,
                DownloadWtCategory(input.loc, DownloadRoot(input.loc), DownloadThirdParty(input.loc)),
                DownloadThirdParty(input.loc),
                DownloadWtContributor(input.loc, DownloadRoot(input.loc), DownloadThirdParty(input.loc))).asset
      [] out.parser = "parse_surge_wav" ->
            parse_surge_wav_wavetable(input.file.data, input.loc,
                DownloadWtCategory(input.loc, DownloadRoot(input.loc), DownloadThirdParty(input.loc)),
                DownloadThirdParty(input.loc),
                DownloadWtContributor(input.loc, DownloadRoot(input.loc), DownloadThirdParty(input.loc))).asset
      [] out.parser = "parse_surge_fxp" ->
            parse_surge_fxp_preset(input.file.data, input.loc).asset
      [] OTHER -> NoAsset

\* C28: for the same bytes at the same location in the repository, the
\* local pipeline and the download pipeline give an asset the same logical
\* id, category and content hash, and a wavetable the same contributor.
C28_PipelinesAgree ==
    (out.parser \in {"parse_surge_wt", "parse_surge_wav", "parse_surge_fxp"}
        /\ IsAsset(out.asset) /\ IsAsset(DownloadCounterpart)) =>
        /\ out.asset.id = DownloadCounterpart.id
        /\ out.asset.category = DownloadCounterpart.category
        /\ out.asset.sha256 = DownloadCounterpart.sha256
        /\ (out.parser # "parse_surge_fxp" =>
              out.asset.contributor = DownloadCounterpart.contributor)

\* C29: the frame size of every asset a WAV parser returns is 256 or 2048:
\* 256 when 256 divides the number of samples, whatever larger sizes divide
\* it too, and 2048 otherwise; and the frame count is at least 1.
C29_FrameSizes ==
    (out.parser \in WavParsers /\ IsAsset(out.asset)) =>
        /\ out.asset.frame_size \in {256, 2048}
        /\ out.asset.frame_size = (IF out.trace.total_samples % 256 = 0 THEN 256 ELSE 2048)
        /\ out.asset.frame_count >= 1

\* a WAV parser returned an asset for a file of 512 samples, which 512
\* divides as well
C29_Witness ==
    /\ out.parser \in WavParsers /\ IsAsset(out.asset)
    /\ out.trace.total_samples = 512
    /\ out.asset.frame_size = 256 /\ out.asset.frame_count = 2

\* a WAV parser returned an asset for a file whose number of samples no
\* common size divides
C29_WitnessDefault ==
    /\ out.parser \in WavParsers /\ IsAsset(out.asset)
    /\ out.trace.total_samples % 256 # 0
    /\ out.asset.frame_size = 2048 /\ out.asset.frame_count = 1

\* the least and the greatest integer of w bits
LeastInt(w) == CASE w = 16 -> -32768 [] w = 24 -> -8388608 [] w = 32 -> -2147483647 - 1
GreatestInt(w) == CASE w = 16 -> 32767 [] w = 24 -> 8388607 [] w = 32 -> 2147483647

\* the two's-complement reading of the w \div 8 little-endian bytes of d
\* that start at offset off: the last byte counts as a signed byte
RECURSIVE TwosComplement(_, _, _)
TwosComplement(d, off, w) ==
    IF w = 8 THEN (IF d[off + 1] >= 128 THEN d[off + 1] - 256 ELSE d[off + 1])
    ELSE d[off + 1] + 256 * TwosComplement(d, off + 1, w - 8)

\* the bytes of the data chunk of a file MkWav wrote
AudioOf(file) == SubSeq(file.data, Len(file.data) - file.written.audio_len + 1, Len(file.data))

\* C30: every sample decoded from integers of width w, 16, 24 or 32 bits,
\* is n / 2^(w-1) for the two's-complement little-endian integer n that its
\* bytes hold, so it lies in [-1, 1); this is so for the 24-bit samples,
\* whose sign the code extends by hand, and for the 16-bit samples of a
\* .wt file.
C30_IntegerSamples ==
    /\ (out.parser \in WavParsers /\ out.trace.tag = "decoded"
          /\ out.trace.bits_per_sample \in {16, 24, 32}
          /\ ~(out.trace.bits_per_sample = 32 /\ out.trace.audio_format = 3)) =>
          LET w == out.trace.bits_per_sample
              stride == (w \div 8) * input.file.written.channels
          IN \A i \in 1..Len(out.trace.samples) :
                /\ out.trace.samples[i] =
                      IntSample(TwosComplement(AudioOf(input.file), (i - 1) * stride, w), w)
                /\ out.trace.samples[i][1] >= LeastInt(w)
                /\ out.trace.samples[i][1] <= GreatestInt(w)
    /\ (out.parser \in WtParsers /\ IsAsset(out.asset) /\ ~out.trace.is_float) =>
          \A i \in 1..Len(out.asset.data_b64) :
             /\ out.asset.data_b64[i] =
                   IntSample(TwosComplement(input.file.data,
                                            out.trace.header_size + 2 * (i - 1), 16), 16)
             /\ out.asset.data_b64[i][1] >= -32768 /\ out.asset.data_b64[i][1] < 32768

\* a WAV parser decoded 24-bit samples, a negative one and the largest one
\* among them
C30_Witness ==
    /\ out.parser \in WavParsers /\ IsAsset(out.asset)
    /\ out.trace.bits_per_sample = 24
    /\ \E i \in 1..Len(out.trace.samples) : out.trace.samples[i] = IntSample(-8388608, 24)
    /\ \E i \in 1..Len(out.trace.samples) : out.trace.samples[i] = IntSample(8388607, 24)

\* a WAV parser decoded 32-bit integer samples, the smallest and the largest
\* among them
C30_WitnessWide ==
    /\ out.parser \in WavParsers /\ IsAsset(out.asset)
    /\ out.trace.bits_per_sample = 32 /\ out.trace.audio_format = 1
    /\ \E i \in 1..Len(out.trace.samples) : out.trace.samples[i] = IntSample(-2147483647 - 1, 32)
    /\ \E i \in 1..Len(out.trace.samples) : out.trace.samples[i] = IntSample(2147483647, 32)

\* a .wt parser decoded 16-bit samples, a negative one among them
C30_WitnessWt ==
    /\ out.parser \in WtParsers /\ IsAsset(out.asset) /\ ~out.trace.is_float
    /\ \E i \in 1..Len(out.asset.data_b64) : out.asset.data_b64[i][1] < 0

====
